---- MODULE Spec2Model ----
(***************************************************************************)
(* CHIP-8 interpreter core (chip8_core/src/lib.rs) and the part of the     *)
(* desktop host that feeds it (desktop/src/main.rs), as a state machine.   *)
(*                                                                         *)
(* Encoding of the two large arrays (exact, one value per array content):  *)
(*   ram    - the function from the addresses that hold a NON-ZERO byte to *)
(*            that byte; every other address below RAM_SIZE holds 0.       *)
(*   screen - the set of indices of the lit pixels (the true cells of the  *)
(*            [bool; SCREEN_WIDTH * SCREEN_HEIGHT] array).                 *)
(* A Rust panic (index out of bounds, unimplemented!, arithmetic overflow  *)
(* of a debug build) ends the process: it is recorded in `fault`, and no   *)
(* call is possible afterwards.                                            *)
(***************************************************************************)
EXTENDS Integers, Sequences, FiniteSets, TLC

(***************************************************************************)
(* Program constants                                                       *)
(***************************************************************************)
SCREEN_WIDTH == 64

SCREEN_HEIGHT == 32

RAM_SIZE == 4096

NUM_REGS == 16

STACK_SIZE == 16

NUM_KEYS == 16

START_ADDR == 512

FONT_SIZE == 80

TICKS_PER_FRAME == 10

\* main.rs: the side of a pixel's rectangle, and the window in canvas units
SCALE == 15

WINDOW_WIDTH == SCREEN_WIDTH * SCALE

WINDOW_HEIGHT == SCREEN_HEIGHT * SCALE

FONTSET ==
    << 240, 144, 144, 144, 240,
        32,  96,  32,  32, 112,
       240,  16, 240, 128, 240,
       240,  16, 240,  16, 240,
       144, 144, 240,  16,  16,
       240, 128, 240,  16, 240,
       240, 128, 240, 144, 240,
       240,  16,  32,  64,  64,
       240, 144, 240, 144, 240,
       240, 144, 240,  16, 240,
       240, 144, 240, 144, 144,
       224, 144, 224, 144, 224,
       240, 128, 128, 128, 240,
       224, 144, 144, 144, 224,
       240, 128, 240, 128, 240,
       240, 128, 240, 128, 128 >>

(***************************************************************************)
(* Integer helpers: u8 / u16 arithmetic and bit operations                 *)
(***************************************************************************)
Pow2(n) == 2 ^ n

\* bit i (0 = least significant) of a non-negative integer
Bit(v, i) == (v \div Pow2(i)) % 2

RECURSIVE BitsToNat(_, _)
\* the number whose bit i is f[i], for i in 0 .. n-1
BitsToNat(f, n) == IF n = 0 THEN 0 ELSE f[n - 1] * Pow2(n - 1) + BitsToNat(f, n - 1)

\* u8 `|`, `&`, `^`
BitOr(a, b) == BitsToNat([i \in 0..7 |-> IF Bit(a, i) = 1 \/ Bit(b, i) = 1 THEN 1 ELSE 0], 8)

BitAnd(a, b) == BitsToNat([i \in 0..7 |-> IF Bit(a, i) = 1 /\ Bit(b, i) = 1 THEN 1 ELSE 0], 8)

BitXor(a, b) == BitsToNat([i \in 0..7 |-> IF Bit(a, i) # Bit(b, i) THEN 1 ELSE 0], 8)

\* u8::wrapping_add
WrappingAdd8(a, b) == (a + b) % 256

\* overflowing_add reporting a carry already at a sum of 255
OverflowingAdd8At255(a, b) == << (a + b) % 256, a + b >= 255 >>

\* u8::overflowing_add: <<wrapped sum, overflow happened>>
OverflowingAdd8(a, b) == << (a + b) % 256, a + b > 255 >>

\* overflowing_sub reporting a borrow for equal operands
OverflowingSub8OnEqual(a, b) == << (a - b + 256) % 256, a - b <= 0 >>

\* u8::overflowing_sub: <<wrapped difference, overflow happened>>
OverflowingSub8(a, b) == << (a - b + 256) % 256, a - b < 0 >>

\* u16::wrapping_add
WrappingAdd16(a, b) == (a + b) % 65536

(***************************************************************************)
(* The sparse memory image                                                 *)
(***************************************************************************)
\* ram[a] of an address a < RAM_SIZE
RamAt(m, a) == IF a \in DOMAIN m THEN m[a] ELSE 0

\* ram[a] = v, for a < RAM_SIZE
RamSet(m, a, v) ==
    IF v = 0
    THEN [x \in DOMAIN m \ {a} |-> m[x]]
    ELSE [x \in DOMAIN m \cup {a} |-> IF x = a THEN v ELSE m[x]]

\* m[start .. start + Len(data)].copy_from_slice(data), the slice in bounds
RamCopy(m, start, data) ==
    LET slice == start..(start + Len(data) - 1)
        byte(a) == IF a \in slice THEN data[a - start + 1] ELSE RamAt(m, a)
    IN  [a \in { x \in DOMAIN m \cup slice : byte(x) # 0 } |-> byte(a)]

\* [0; RAM_SIZE] followed by ram[..FONT_SIZE].copy_from_slice(&FONTSET)
FontRam == RamCopy(<< >>, 0, FONTSET)

(***************************************************************************)
(* State                                                                   *)
(***************************************************************************)
VARIABLES
    pc,      \* Emu.pc: u16
    ram,     \* Emu.ram: [u8; RAM_SIZE], as its non-zero bytes
    screen,  \* Emu.screen: [bool; 64 * 32], as the set of lit indices
    v_reg,   \* Emu.v_reg: [u8; NUM_REGS], indexed 0 .. 15
    i_reg,   \* Emu.i_reg: u16
    sp,      \* Emu.sp: u16
    stack,   \* Emu.stack: [u16; STACK_SIZE], indexed 0 .. 15
    keys,    \* Emu.keys: [bool; NUM_KEYS], indexed 0 .. 15
    dt,      \* Emu.dt: u8
    st,      \* Emu.st: u8
    fault,   \* "none", or the panic that ended the process
    rom,     \* the host's `buffer`: the bytes of the ROM file (main.rs)
    loaded,  \* the host has loaded the ROM into this (constructed or reset) machine
    host,    \* main: where it is (at), the iterations done of the tick loop of
             \* this frame (ticks), and the rectangles on the canvas (canvas)
    last     \* history: the last call made on the core, the word it fetched
             \* (ticks only), whether it changed any field of Emu, and the
             \* subroutine calls in progress: for each 2NNN executed and not
             \* yet returned from, its address and the sp it found

\* the fields of Emu
emu == << pc, ram, screen, v_reg, i_reg, sp, stack, keys, dt, st >>

vars ==
    << pc, ram, screen, v_reg, i_reg, sp, stack, keys, dt, st, fault, rom, loaded, host, last >>

\* the calls in progress after a call on the core that fetched op: reset
\* abandons them, a 2NNN that pushed adds one, a 00EE that popped ends the latest
CallsAfter(call, op) ==
    IF call = "reset" THEN << >>
    ELSE IF call = "tick" /\ op \div 4096 = 2 /\ fault' = "none"
    THEN Append(last.calls, [at |-> pc, sp |-> sp])
    ELSE IF call = "tick" /\ op = \h00EE /\ fault' = "none" /\ last.calls # << >>
    THEN SubSeq(last.calls, 1, Len(last.calls) - 1)
    ELSE last.calls

\* the history variable after a call
Observed(call, op) ==
    last' = [call |-> call, op |-> op, changed |-> emu' # emu,
             calls |-> CallsAfter(call, op)]

(***************************************************************************)
(* Emu::new and Emu::reset                                                 *)
(***************************************************************************)
\* the value Emu::new returns
NewEmu ==
    /\ pc = START_ADDR
    /\ ram = FontRam
    /\ screen = {}
    /\ v_reg = [r \in 0..(NUM_REGS - 1) |-> 0]
    /\ i_reg = 0
    /\ sp = 0
    /\ stack = [s \in 0..(STACK_SIZE - 1) |-> 0]
    /\ keys = [k \in 0..(NUM_KEYS - 1) |-> FALSE]
    /\ dt = 0
    /\ st = 0

\* main: the ROM file has been read, Emu::new() has run
InitWith(roms) ==
    /\ NewEmu
    /\ fault = "none"
    /\ rom \in roms
    /\ loaded = FALSE
    /\ host = [at |-> "load", ticks |-> 0, canvas |-> {}]
    /\ last = [call |-> "new", op |-> -1, changed |-> FALSE, calls |-> << >>]

\* reset() without `self.ram = [0; RAM_SIZE]`
ResetKeepsRam ==
    /\ fault = "none"
    /\ pc' = START_ADDR
    /\ ram' = RamCopy(ram, 0, FONTSET)
    /\ screen' = {}
    /\ v_reg' = [r \in 0..(NUM_REGS - 1) |-> 0]
    /\ i_reg' = 0
    /\ sp' = 0
    /\ stack' = [s \in 0..(STACK_SIZE - 1) |-> 0]
    /\ keys' = [k \in 0..(NUM_KEYS - 1) |-> FALSE]
    /\ dt' = 0
    /\ st' = 0
    /\ loaded' = FALSE
    /\ UNCHANGED << fault, rom, host >>
    /\ Observed("reset", -1)

\* reset() without `self.ram[..FONT_SIZE].copy_from_slice(&FONTSET)`
ResetWithoutFont ==
    /\ fault = "none"
    /\ pc' = START_ADDR
    /\ ram' = << >>
    /\ screen' = {}
    /\ v_reg' = [r \in 0..(NUM_REGS - 1) |-> 0]
    /\ i_reg' = 0
    /\ sp' = 0
    /\ stack' = [s \in 0..(STACK_SIZE - 1) |-> 0]
    /\ keys' = [k \in 0..(NUM_KEYS - 1) |-> FALSE]
    /\ dt' = 0
    /\ st' = 0
    /\ loaded' = FALSE
    /\ UNCHANGED << fault, rom, host >>
    /\ Observed("reset", -1)

reset ==
    /\ fault = "none"
    /\ pc' = START_ADDR
    /\ ram' = RamCopy(<< >>, 0, FONTSET)
    /\ screen' = {}
    /\ v_reg' = [r \in 0..(NUM_REGS - 1) |-> 0]
    /\ i_reg' = 0
    /\ sp' = 0
    /\ stack' = [s \in 0..(STACK_SIZE - 1) |-> 0]
    /\ keys' = [k \in 0..(NUM_KEYS - 1) |-> FALSE]
    /\ dt' = 0
    /\ st' = 0
    /\ loaded' = FALSE
    /\ UNCHANGED << fault, rom >>
    /\ Observed("reset", -1)

\* a reset() call made outside the game loop
Reset == reset /\ UNCHANGED host

(***************************************************************************)
(* Emu::keypress, Emu::load, Emu::tick_timers                              *)
(***************************************************************************)
\* the key indices the host passes: key2btn yields 0x0 .. 0xF only
KeyInputs == {0, 7, 15}

keypress(idx, pressed) ==
    /\ fault = "none"
    /\ IF idx < NUM_KEYS
       THEN keys' = [keys EXCEPT ![idx] = pressed] /\ fault' = "none"
       ELSE keys' = keys /\ fault' = "index out of bounds"
    /\ UNCHANGED << pc, ram, screen, v_reg, i_reg, sp, stack, dt, st, rom, loaded >>
    /\ Observed("keypress", -1)

Keypress ==
    /\ \E idx \in KeyInputs, pressed \in BOOLEAN : keypress(idx, pressed)
    /\ UNCHANGED host

\* load() copying the ROM into a freshly constructed memory image
loadIntoFreshRam(data) ==
    /\ fault = "none"
    /\ IF START_ADDR + Len(data) <= RAM_SIZE
       THEN ram' = RamCopy(FontRam, START_ADDR, data) /\ fault' = "none"
       ELSE ram' = ram /\ fault' = "index out of bounds"
    /\ UNCHANGED << pc, screen, v_reg, i_reg, sp, stack, keys, dt, st, rom >>
    /\ Observed("load", -1)

\* load() copying as much of the ROM as fits and dropping the rest
loadTruncating(data) ==
    /\ fault = "none"
    /\ ram' = RamCopy(ram, START_ADDR,
                      IF START_ADDR + Len(data) <= RAM_SIZE
                      THEN data
                      ELSE SubSeq(data, 1, RAM_SIZE - START_ADDR))
    /\ fault' = "none"
    /\ UNCHANGED << pc, screen, v_reg, i_reg, sp, stack, keys, dt, st, rom >>
    /\ Observed("load", -1)

\* self.ram[start..end].copy_from_slice(data): the slice is bounds-checked
\* before any byte is copied
load(data) ==
    /\ fault = "none"
    /\ IF START_ADDR + Len(data) <= RAM_SIZE
       THEN ram' = RamCopy(ram, START_ADDR, data) /\ fault' = "none"
       ELSE ram' = ram /\ fault' = "index out of bounds"
    /\ UNCHANGED << pc, screen, v_reg, i_reg, sp, stack, keys, dt, st, rom >>
    /\ Observed("load", -1)

\* chip8.load(&buffer)
Load == load(rom) /\ loaded' = TRUE /\ UNCHANGED host

\* tick_timers() decrementing the delay timer with wrapping_sub and no test
TickTimersWrapping ==
    /\ fault = "none"
    /\ dt' = (dt + 255) % 256
    /\ st' = st
    /\ UNCHANGED << pc, ram, screen, v_reg, i_reg, sp, stack, keys, fault, rom, loaded, host >>
    /\ Observed("tick_timers", -1)

tick_timers ==
    /\ fault = "none"
    /\ dt' = IF dt > 0 THEN dt - 1 ELSE dt
    \* the sound timer is only compared with 1 (the empty BEEP branch)
    /\ st' = st
    /\ UNCHANGED << pc, ram, screen, v_reg, i_reg, sp, stack, keys, fault, rom, loaded >>
    /\ Observed("tick_timers", -1)

\* a tick_timers() call made at any time
TickTimers == tick_timers /\ UNCHANGED host

(***************************************************************************)
(* Emu::fetch, Emu::push, Emu::pop                                         *)
(***************************************************************************)
\* a fetch that never panics: an address past the end reads as 0
FetchNeverFaults == FALSE

\* fetch panics when ram[pc] or ram[pc + 1] is out of bounds
FetchFaults == pc >= RAM_SIZE \/ pc + 1 >= RAM_SIZE

\* (higher_byte << 8) | lower_byte
FetchWord == RamAt(ram, pc) * 256 + RamAt(ram, pc + 1)

\* the program counter when execute runs: fetch has done self.pc += 2
Fetched == pc + 2

\* push panics on stack[sp] when sp = STACK_SIZE
PushFaults == sp >= STACK_SIZE

\* pop: self.sp -= 1 overflows when sp = 0; a debug build panics on the
\* subtraction, a release build wraps to 65535 and panics on stack[65535]
PopFaults == sp = 0

(***************************************************************************)
(* Emu::execute, one operator per match arm                                *)
(***************************************************************************)
\* (0, 0, 0, 0) => return
Op_0000 ==
    /\ pc' = Fetched
    /\ fault' = "none"
    /\ UNCHANGED << ram, screen, v_reg, i_reg, sp, stack, keys, dt, st >>

\* 00E0 without the assignment to self.screen
Op_00E0_NoClear ==
    /\ pc' = Fetched
    /\ fault' = "none"
    /\ UNCHANGED << ram, screen, v_reg, i_reg, sp, stack, keys, dt, st >>

\* (0, 0, 0xE, 0): clear screen
Op_00E0 ==
    /\ pc' = Fetched
    /\ screen' = {}
    /\ fault' = "none"
    /\ UNCHANGED << ram, v_reg, i_reg, sp, stack, keys, dt, st >>

\* 00EE reading stack[sp - 1] without `self.sp -= 1`
Op_00EE_NoDecrement ==
    IF PopFaults
    THEN /\ pc' = Fetched
         /\ fault' = "index out of bounds"
         /\ UNCHANGED << ram, screen, v_reg, i_reg, sp, stack, keys, dt, st >>
    ELSE /\ pc' = stack[sp - 1]
         /\ fault' = "none"
         /\ UNCHANGED << ram, screen, v_reg, i_reg, sp, stack, keys, dt, st >>

\* 00EE with the stack pointer wrapping modulo STACK_SIZE
Op_00EE_Wrapping ==
    /\ sp' = (sp + STACK_SIZE - 1) % STACK_SIZE
    /\ pc' = stack[(sp + STACK_SIZE - 1) % STACK_SIZE]
    /\ fault' = "none"
    /\ UNCHANGED << ram, screen, v_reg, i_reg, stack, keys, dt, st >>

\* (0, 0, 0xE, 0xE): return from subroutine
Op_00EE ==
    IF PopFaults
    THEN /\ pc' = Fetched
         /\ \E release \in BOOLEAN :
               IF release
               THEN sp' = 65535 /\ fault' = "index out of bounds"
               ELSE sp' = sp /\ fault' = "attempt to subtract with overflow"
         /\ UNCHANGED << ram, screen, v_reg, i_reg, stack, keys, dt, st >>
    ELSE /\ sp' = sp - 1
         /\ pc' = stack[sp - 1]
         /\ fault' = "none"
         /\ UNCHANGED << ram, screen, v_reg, i_reg, stack, keys, dt, st >>

\* (1, _, _, _): jump
Op_1NNN(nnn) ==
    /\ pc' = nnn
    /\ fault' = "none"
    /\ UNCHANGED << ram, screen, v_reg, i_reg, sp, stack, keys, dt, st >>

\* 2NNN pushing the address of the call itself instead of the address after it
Op_2NNN_PushesCallAddress(nnn) ==
    IF PushFaults
    THEN /\ pc' = Fetched
         /\ fault' = "index out of bounds"
         /\ UNCHANGED << ram, screen, v_reg, i_reg, sp, stack, keys, dt, st >>
    ELSE /\ stack' = [stack EXCEPT ![sp] = Fetched - 2]
         /\ sp' = sp + 1
         /\ pc' = nnn
         /\ fault' = "none"
         /\ UNCHANGED << ram, screen, v_reg, i_reg, keys, dt, st >>

\* (2, _, _, _): call subroutine
Op_2NNN(nnn) ==
    IF PushFaults
    THEN /\ pc' = Fetched
         /\ fault' = "index out of bounds"
         /\ UNCHANGED << ram, screen, v_reg, i_reg, sp, stack, keys, dt, st >>
    ELSE /\ stack' = [stack EXCEPT ![sp] = Fetched]
         /\ sp' = sp + 1
         /\ pc' = nnn
         /\ fault' = "none"
         /\ UNCHANGED << ram, screen, v_reg, i_reg, keys, dt, st >>

\* a skip that adds 2 to the address the instruction was fetched from
SkipFromOwnAddress(cond) ==
    /\ pc' = IF cond THEN pc + 2 ELSE Fetched
    /\ fault' = "none"
    /\ UNCHANGED << ram, screen, v_reg, i_reg, sp, stack, keys, dt, st >>

\* the four skips: self.pc += 2 when the condition holds
Skip(cond) ==
    /\ pc' = IF cond THEN Fetched + 2 ELSE Fetched
    /\ fault' = "none"
    /\ UNCHANGED << ram, screen, v_reg, i_reg, sp, stack, keys, dt, st >>

\* (3, _, _, _)
Op_3XNN(x, nn) == Skip(v_reg[x] = nn)

\* (4, _, _, _)
Op_4XNN(x, nn) == Skip(v_reg[x] # nn)

\* (5, _, _, 0)
Op_5XY0(x, y) == Skip(v_reg[x] = v_reg[y])

\* (9, _, _, 0)
Op_9XY0(x, y) == Skip(v_reg[x] # v_reg[y])

\* an arm that only assigns registers
SetRegs(regs) ==
    /\ v_reg' = regs
    /\ pc' = Fetched
    /\ fault' = "none"
    /\ UNCHANGED << ram, screen, i_reg, sp, stack, keys, dt, st >>

\* (6, _, _, _)
Op_6XNN(x, nn) == SetRegs([v_reg EXCEPT ![x] = nn])

\* 7XNN storing the carry of the addition in v_reg[0xF], as 8XY4 does
Op_7XNN_SetsCarry(x, nn) ==
    LET r == OverflowingAdd8(v_reg[x], nn)
        new_vf == IF r[2] THEN 1 ELSE 0
    IN  SetRegs([[v_reg EXCEPT ![x] = r[1]] EXCEPT ![15] = new_vf])

\* (7, _, _, _)
Op_7XNN(x, nn) == SetRegs([v_reg EXCEPT ![x] = WrappingAdd8(v_reg[x], nn)])

\* (8, _, _, 1)
Op_8XY1(x, y) == SetRegs([v_reg EXCEPT ![x] = BitOr(v_reg[x], v_reg[y])])

\* (8, _, _, 2)
Op_8XY2(x, y) == SetRegs([v_reg EXCEPT ![x] = BitAnd(v_reg[x], v_reg[y])])

\* (8, _, _, 3)
Op_8XY3(x, y) == SetRegs([v_reg EXCEPT ![x] = BitXor(v_reg[x], v_reg[y])])

\* 8XY4 assigning v_reg[0xF] first and v_reg[x] second
Op_8XY4_FlagFirst(x, y) ==
    LET r == OverflowingAdd8(v_reg[x], v_reg[y])
        new_vf == IF r[2] THEN 1 ELSE 0
    IN  SetRegs([[v_reg EXCEPT ![15] = new_vf] EXCEPT ![x] = r[1]])

\* (8, _, _, 4): v_reg[x] is assigned first, v_reg[0xF] second
Op_8XY4(x, y) ==
    LET r == OverflowingAdd8(v_reg[x], v_reg[y])
        new_vf == IF r[2] THEN 1 ELSE 0
    IN  SetRegs([[v_reg EXCEPT ![x] = r[1]] EXCEPT ![15] = new_vf])

\* (8, _, _, 5)
Op_8XY5(x, y) ==
    LET r == OverflowingSub8(v_reg[x], v_reg[y])
        new_vf == IF r[2] THEN 0 ELSE 1
    IN  SetRegs([[v_reg EXCEPT ![x] = r[1]] EXCEPT ![15] = new_vf])

\* (8, _, _, 6)
Op_8XY6(x) ==
    LET lsb == BitAnd(v_reg[x], 1)
    IN  SetRegs([[v_reg EXCEPT ![x] = v_reg[x] \div 2] EXCEPT ![15] = lsb])

\* (8, _, _, 7)
Op_8XY7(x, y) ==
    LET r == OverflowingSub8(v_reg[y], v_reg[x])
        new_vf == IF r[2] THEN 0 ELSE 1
    IN  SetRegs([[v_reg EXCEPT ![x] = r[1]] EXCEPT ![15] = new_vf])

\* 8XYE taking the flag from the shifted value instead of the value before it
Op_8XYE_FlagAfterShift(x) ==
    LET shifted == (v_reg[x] * 2) % 256
        msb == BitAnd(shifted \div 128, 1)
    IN  SetRegs([[v_reg EXCEPT ![x] = shifted] EXCEPT ![15] = msb])

\* (8, _, _, 0xE)
Op_8XYE(x) ==
    LET msb == BitAnd(v_reg[x] \div 128, 1)
    IN  SetRegs([[v_reg EXCEPT ![x] = (v_reg[x] * 2) % 256] EXCEPT ![15] = msb])

\* (8, _, _, _): the arm after the eight specific 8XY_ arms
Op_8XY_(x, y) == SetRegs([v_reg EXCEPT ![x] = v_reg[y]])

\* (0xA, _, _, _)
Op_ANNN(nnn) ==
    /\ i_reg' = nnn
    /\ pc' = Fetched
    /\ fault' = "none"
    /\ UNCHANGED << ram, screen, v_reg, sp, stack, keys, dt, st >>

\* (0xB, _, _, _)
Op_BNNN(nnn) ==
    /\ pc' = v_reg[0] + nnn
    /\ fault' = "none"
    /\ UNCHANGED << ram, screen, v_reg, i_reg, sp, stack, keys, dt, st >>

\* CXNN storing the random byte without `& nn`
Op_CXNN_Unmasked(x, nn) == \E rng \in 0..255 : SetRegs([v_reg EXCEPT ![x] = rng])

\* (0xC, _, _, _): rng is rand::random::<u8>()
Op_CXNN(x, nn) == \E rng \in 0..255 : SetRegs([v_reg EXCEPT ![x] = BitAnd(rng, nn)])

(***************************************************************************)
(* DXYN: the draw loop.  A draw in progress is the record                  *)
(*   [screen, flipped, ok]; ok = FALSE once ram[addr] was out of bounds.   *)
(***************************************************************************)
\* (pixels & (0b1000_0000 >> x_line)) != 0
SpriteBit(pixels, x_line) == Bit(pixels, 7 - x_line) = 1

\* the index without the `% SCREEN_WIDTH` of x
PixelIndexNoWrapX(x_coord, y_coord, x_line, y_line) ==
    LET x == x_coord + x_line
        y == (y_coord + y_line) % SCREEN_HEIGHT
    IN  x + SCREEN_WIDTH * y

\* x + SCREEN_WIDTH * y of the wrapped coordinates
PixelIndex(x_coord, y_coord, x_line, y_line) ==
    LET x == (x_coord + x_line) % SCREEN_WIDTH
        y == (y_coord + y_line) % SCREEN_HEIGHT
    IN  x + SCREEN_WIDTH * y

\* `self.screen[idx] |= true` in place of `^= true`
FlipPixelSet(d, idx) ==
    [d EXCEPT !.flipped = d.flipped \/ (idx \in d.screen),
              !.screen = d.screen \cup {idx}]

\* `flipped = self.screen[idx]` in place of `flipped |= self.screen[idx]`
FlipPixelAssign(d, idx) ==
    [d EXCEPT !.flipped = idx \in d.screen,
              !.screen = IF idx \in d.screen THEN d.screen \ {idx} ELSE d.screen \cup {idx}]

\* flipped |= self.screen[idx]; self.screen[idx] ^= true
FlipPixel(d, idx) ==
    [d EXCEPT !.flipped = d.flipped \/ (idx \in d.screen),
              !.screen = IF idx \in d.screen THEN d.screen \ {idx} ELSE d.screen \cup {idx}]

RECURSIVE DrawRow(_, _, _, _, _, _)
\* for x_line in x_line..8
DrawRow(d, pixels, x_coord, y_coord, y_line, x_line) ==
    IF x_line >= 8 THEN d
    ELSE DrawRow(IF SpriteBit(pixels, x_line)
                 THEN FlipPixel(d, PixelIndex(x_coord, y_coord, x_line, y_line))
                 ELSE d,
                 pixels, x_coord, y_coord, y_line, x_line + 1)

RECURSIVE DrawSprite(_, _, _, _, _, _, _)
\* for y_line in y_line..num_rows.  addr = i_reg + y_line cannot overflow u16
\* before ram[addr] panics: an i_reg that large already panics at y_line = 0.
DrawSprite(d, y_line, num_rows, x_coord, y_coord, i, m) ==
    IF y_line >= num_rows THEN d
    ELSE IF i + y_line >= RAM_SIZE THEN [d EXCEPT !.ok = FALSE]
    ELSE DrawSprite(DrawRow(d, RamAt(m, i + y_line), x_coord, y_coord, y_line, 0),
                    y_line + 1, num_rows, x_coord, y_coord, i, m)

\* (0xD, _, _, _)
Op_DXYN(x, y, num_rows) ==
    LET d == DrawSprite([screen |-> screen, flipped |-> FALSE, ok |-> TRUE],
                        0, num_rows, v_reg[x], v_reg[y], i_reg, ram)
    IN  /\ screen' = d.screen
        /\ IF d.ok
           THEN v_reg' = [v_reg EXCEPT ![15] = IF d.flipped THEN 1 ELSE 0] /\ fault' = "none"
           ELSE v_reg' = v_reg /\ fault' = "index out of bounds"
        /\ pc' = Fetched
        /\ UNCHANGED << ram, i_reg, sp, stack, keys, dt, st >>

(***************************************************************************)
(* Keys and timers                                                         *)
(***************************************************************************)
\* a key skip that masks vx to its low nibble before indexing keys
KeySkipMasked(x, want) == Skip(keys[v_reg[x] % NUM_KEYS] = want)

\* self.keys[vx as usize] panics when vx >= NUM_KEYS
KeySkip(x, want) ==
    IF v_reg[x] >= NUM_KEYS
    THEN /\ pc' = Fetched
         /\ fault' = "index out of bounds"
         /\ UNCHANGED << ram, screen, v_reg, i_reg, sp, stack, keys, dt, st >>
    ELSE Skip(keys[v_reg[x]] = want)

\* (0xE, _, 9, 0xE)
Op_EX9E(x) == KeySkip(x, TRUE)

\* (0xE, _, 0xA, 1)
Op_EXA1(x) == KeySkip(x, FALSE)

\* FX07 that also clears the timer it read
Op_FX07_ClearsTimer(x) ==
    /\ v_reg' = [v_reg EXCEPT ![x] = dt]
    /\ dt' = 0
    /\ pc' = Fetched
    /\ fault' = "none"
    /\ UNCHANGED << ram, screen, i_reg, sp, stack, keys, st >>

\* (0xF, _, 0, 7)
Op_FX07(x) == SetRegs([v_reg EXCEPT ![x] = dt])

\* the key scan without its `break`: the last pressed key wins
HighestPressed(k, i) ==
    IF \E j \in i..(NUM_KEYS - 1) : k[j]
    THEN CHOOSE j \in i..(NUM_KEYS - 1) : k[j] /\ \A h \in (j + 1)..(NUM_KEYS - 1) : ~k[h]
    ELSE -1

RECURSIVE FirstPressed(_, _)
\* for i in i..self.keys.len(): the first i with keys[i], or -1 (pressed = false)
FirstPressed(k, i) ==
    IF i >= NUM_KEYS THEN -1
    ELSE IF k[i] THEN i
    ELSE FirstPressed(k, i + 1)

\* FX0A consuming the key it read: keys[i] = false
Op_FX0A_ConsumesKey(x) ==
    LET i == FirstPressed(keys, 0)
    IN  /\ IF i >= 0
           THEN /\ v_reg' = [v_reg EXCEPT ![x] = i]
                /\ keys' = [keys EXCEPT ![i] = FALSE]
                /\ pc' = Fetched
           ELSE v_reg' = v_reg /\ keys' = keys /\ pc' = Fetched - 2
        /\ fault' = "none"
        /\ UNCHANGED << ram, screen, i_reg, sp, stack, dt, st >>

\* FX0A as a blocking wait: the call returns only once a key is pressed
Op_FX0A_Blocking(x) ==
    LET i == FirstPressed(keys, 0)
    IN  /\ i >= 0
        /\ v_reg' = [v_reg EXCEPT ![x] = i]
        /\ pc' = Fetched
        /\ fault' = "none"
        /\ UNCHANGED << ram, screen, i_reg, sp, stack, keys, dt, st >>

\* FX0A without the `self.pc -= 2` of the not-pressed branch
Op_FX0A_NoRewind(x) ==
    LET i == FirstPressed(keys, 0)
    IN  /\ IF i >= 0
           THEN v_reg' = [v_reg EXCEPT ![x] = i] /\ pc' = Fetched
           ELSE v_reg' = v_reg /\ pc' = Fetched
        /\ fault' = "none"
        /\ UNCHANGED << ram, screen, i_reg, sp, stack, keys, dt, st >>

\* FX0A stepping back two instructions when no key is pressed
Op_FX0A_RewindsFour(x) ==
    LET i == FirstPressed(keys, 0)
    IN  /\ IF i >= 0
           THEN v_reg' = [v_reg EXCEPT ![x] = i] /\ pc' = Fetched
           ELSE v_reg' = v_reg /\ pc' = Fetched - 4
        /\ fault' = "none"
        /\ UNCHANGED << ram, screen, i_reg, sp, stack, keys, dt, st >>

\* (0xF, _, 0, 0xA)
Op_FX0A(x) ==
    LET i == FirstPressed(keys, 0)
    IN  /\ IF i >= 0
           THEN v_reg' = [v_reg EXCEPT ![x] = i] /\ pc' = Fetched
           ELSE v_reg' = v_reg /\ pc' = Fetched - 2
        /\ fault' = "none"
        /\ UNCHANGED << ram, screen, i_reg, sp, stack, keys, dt, st >>

\* (0xF, _, 1, 5)
Op_FX15(x) ==
    /\ dt' = v_reg[x]
    /\ pc' = Fetched
    /\ fault' = "none"
    /\ UNCHANGED << ram, screen, v_reg, i_reg, sp, stack, keys, st >>

\* (0xF, _, 1, 8)
Op_FX18(x) ==
    /\ st' = v_reg[x]
    /\ pc' = Fetched
    /\ fault' = "none"
    /\ UNCHANGED << ram, screen, v_reg, i_reg, sp, stack, keys, dt >>

(***************************************************************************)
(* The index register and memory transfers                                 *)
(***************************************************************************)
\* an arm that only assigns i_reg
SetIndex(v) ==
    /\ i_reg' = v
    /\ pc' = Fetched
    /\ fault' = "none"
    /\ UNCHANGED << ram, screen, v_reg, sp, stack, keys, dt, st >>

\* (0xF, _, 1, 0xE)
Op_FX1E(x) == SetIndex(WrappingAdd16(i_reg, v_reg[x]))

\* (0xF, _, 2, 9)
Op_FX29(x) == SetIndex(v_reg[x] * 5)

\* the digits with the tens taken as vx / 10, without `% 10.0`
BcdTensNotReduced(vx) == << vx \div 100, vx \div 10, vx % 10 >>

\* the three digits FX33 computes from vx (as f32, exact for 0 .. 255)
Bcd(vx) == << vx \div 100, (vx \div 10) % 10, vx % 10 >>

RECURSIVE StoreBytesWrapping(_, _, _, _)
\* a store that wraps the address modulo RAM_SIZE and never panics
StoreBytesWrapping(m, i, bytes, j) ==
    IF j > Len(bytes) THEN [ram |-> m, ok |-> TRUE]
    ELSE StoreBytesWrapping(RamSet(m, (i + j - 1) % RAM_SIZE, bytes[j]), i, bytes, j + 1)

RECURSIVE StoreBytes(_, _, _, _)
\* m[i + k - 1] = bytes[k] for k = j, j + 1, ..., stopping at the first
\* address out of bounds: [ram, ok]
StoreBytes(m, i, bytes, j) ==
    IF j > Len(bytes) THEN [ram |-> m, ok |-> TRUE]
    ELSE IF i + j - 1 >= RAM_SIZE THEN [ram |-> m, ok |-> FALSE]
    ELSE StoreBytes(RamSet(m, i + j - 1, bytes[j]), i, bytes, j + 1)

\* an arm that only writes ram
SetRam(w) ==
    /\ ram' = w.ram
    /\ fault' = IF w.ok THEN "none" ELSE "index out of bounds"
    /\ pc' = Fetched
    /\ UNCHANGED << screen, v_reg, i_reg, sp, stack, keys, dt, st >>

\* (0xF, _, 3, 3).  i_reg + 1 and i_reg + 2 cannot overflow u16 before
\* ram[i_reg] panics.
Op_FX33(x) == SetRam(StoreBytes(ram, i_reg, Bcd(v_reg[x]), 1))

\* FX55 with the exclusive range `for idx in 0..x`
Op_FX55_Exclusive(x) == SetRam(StoreBytes(ram, i_reg, [k \in 1..x |-> v_reg[k - 1]], 1))

\* (0xF, _, 5, 5): for idx in 0..=x
Op_FX55(x) == SetRam(StoreBytes(ram, i_reg, [k \in 1..(x + 1) |-> v_reg[k - 1]], 1))

RECURSIVE LoadRegs(_, _, _, _, _)
\* regs[idx] = m[i + idx] for idx = idx, ..., x, stopping at the first address
\* out of bounds: [regs, ok]
LoadRegs(regs, m, i, idx, x) ==
    IF idx > x THEN [regs |-> regs, ok |-> TRUE]
    ELSE IF i + idx >= RAM_SIZE THEN [regs |-> regs, ok |-> FALSE]
    ELSE LoadRegs([regs EXCEPT ![idx] = RamAt(m, i + idx)], m, i, idx + 1, x)

\* FX65 with the exclusive range `for idx in 0..x`
Op_FX65_Exclusive(x) ==
    LET l == LoadRegs(v_reg, ram, i_reg, 0, x - 1)
    IN  /\ v_reg' = l.regs
        /\ fault' = IF l.ok THEN "none" ELSE "index out of bounds"
        /\ pc' = Fetched
        /\ UNCHANGED << ram, screen, i_reg, sp, stack, keys, dt, st >>

\* (0xF, _, 6, 5): for idx in 0..=x
Op_FX65(x) ==
    LET l == LoadRegs(v_reg, ram, i_reg, 0, x)
    IN  /\ v_reg' = l.regs
        /\ fault' = IF l.ok THEN "none" ELSE "index out of bounds"
        /\ pc' = Fetched
        /\ UNCHANGED << ram, screen, i_reg, sp, stack, keys, dt, st >>

\* (_, _, _, _) => unimplemented!
Op_Unimplemented ==
    /\ pc' = Fetched
    /\ fault' = "unimplemented"
    /\ UNCHANGED << ram, screen, v_reg, i_reg, sp, stack, keys, dt, st >>

(***************************************************************************)
(* Emu::execute: the match, first matching arm wins                        *)
(***************************************************************************)
Digit1(op) == (op \div 4096) % 16

Digit2(op) == (op \div 256) % 16

Digit3(op) == (op \div 16) % 16

Digit4(op) == op % 16

Execute(op) ==
    LET digit1 == Digit1(op)
        digit2 == Digit2(op)
        digit3 == Digit3(op)
        digit4 == Digit4(op)
        nn == op % 256
        nnn == op % 4096
    IN  IF digit1 = 0 /\ digit2 = 0 /\ digit3 = 0 /\ digit4 = 0 THEN Op_0000
        ELSE IF digit1 = 0 /\ digit2 = 0 /\ digit3 = 14 /\ digit4 = 0 THEN Op_00E0
        ELSE IF digit1 = 0 /\ digit2 = 0 /\ digit3 = 14 /\ digit4 = 14 THEN Op_00EE
        ELSE IF digit1 = 1 THEN Op_1NNN(nnn)
        ELSE IF digit1 = 2 THEN Op_2NNN(nnn)
        ELSE IF digit1 = 3 THEN Op_3XNN(digit2, nn)
        ELSE IF digit1 = 4 THEN Op_4XNN(digit2, nn)
        ELSE IF digit1 = 5 /\ digit4 = 0 THEN Op_5XY0(digit2, digit3)
        ELSE IF digit1 = 6 THEN Op_6XNN(digit2, nn)
        ELSE IF digit1 = 7 THEN Op_7XNN(digit2, nn)
        ELSE IF digit1 = 8 /\ digit4 = 1 THEN Op_8XY1(digit2, digit3)
        ELSE IF digit1 = 8 /\ digit4 = 2 THEN Op_8XY2(digit2, digit3)
        ELSE IF digit1 = 8 /\ digit4 = 3 THEN Op_8XY3(digit2, digit3)
        ELSE IF digit1 = 8 /\ digit4 = 4 THEN Op_8XY4(digit2, digit3)
        ELSE IF digit1 = 8 /\ digit4 = 5 THEN Op_8XY5(digit2, digit3)
        ELSE IF digit1 = 8 /\ digit4 = 6 THEN Op_8XY6(digit2)
        ELSE IF digit1 = 8 /\ digit4 = 7 THEN Op_8XY7(digit2, digit3)
        ELSE IF digit1 = 8 /\ digit4 = 14 THEN Op_8XYE(digit2)
        ELSE IF digit1 = 8 THEN Op_8XY_(digit2, digit3)
        ELSE IF digit1 = 9 /\ digit4 = 0 THEN Op_9XY0(digit2, digit3)
        ELSE IF digit1 = 10 THEN Op_ANNN(nnn)
        ELSE IF digit1 = 11 THEN Op_BNNN(nnn)
        ELSE IF digit1 = 12 THEN Op_CXNN(digit2, nn)
        ELSE IF digit1 = 13 THEN Op_DXYN(digit2, digit3, digit4)
        ELSE IF digit1 = 14 /\ digit3 = 9 /\ digit4 = 14 THEN Op_EX9E(digit2)
        ELSE IF digit1 = 14 /\ digit3 = 10 /\ digit4 = 1 THEN Op_EXA1(digit2)
        ELSE IF digit1 = 15 /\ digit3 = 0 /\ digit4 = 7 THEN Op_FX07(digit2)
        ELSE IF digit1 = 15 /\ digit3 = 0 /\ digit4 = 10 THEN Op_FX0A(digit2)
        ELSE IF digit1 = 15 /\ digit3 = 1 /\ digit4 = 5 THEN Op_FX15(digit2)
        ELSE IF digit1 = 15 /\ digit3 = 1 /\ digit4 = 8 THEN Op_FX18(digit2)
        ELSE IF digit1 = 15 /\ digit3 = 1 /\ digit4 = 14 THEN Op_FX1E(digit2)
        ELSE IF digit1 = 15 /\ digit3 = 2 /\ digit4 = 9 THEN Op_FX29(digit2)
        ELSE IF digit1 = 15 /\ digit3 = 3 /\ digit4 = 3 THEN Op_FX33(digit2)
        ELSE IF digit1 = 15 /\ digit3 = 5 /\ digit4 = 5 THEN Op_FX55(digit2)
        ELSE IF digit1 = 15 /\ digit3 = 6 /\ digit4 = 5 THEN Op_FX65(digit2)
        ELSE Op_Unimplemented

(***************************************************************************)
(* Emu::tick                                                               *)
(***************************************************************************)
\* The host ticks a machine only after loading its ROM (main.rs loads before
\* the game loop): a machine ticked with blank memory runs no-ops from 0x200
\* to the end of memory.
tick ==
    /\ fault = "none"
    /\ loaded
    /\ IF FetchFaults
       THEN /\ fault' = "index out of bounds"
            /\ UNCHANGED emu
            /\ Observed("tick", -1)
       ELSE /\ Execute(FetchWord)
            /\ Observed("tick", FetchWord)
    /\ UNCHANGED << rom, loaded >>

\* a tick() call made at any time after the load
Tick == tick /\ UNCHANGED host

(***************************************************************************)
(* The calls a caller can make on the core, in any order                   *)
(***************************************************************************)
Next ==
    \/ Load
    \/ Tick
    \/ TickTimers
    \/ Keypress
    \/ Reset

(***************************************************************************)
(* main: the game loop of the desktop host                                 *)
(*   host.at = "load"    Emu::new() has run, the ROM file is in `buffer`   *)
(*             "events"  top of 'gameloop, inside event_pump.poll_iter()   *)
(*             "ticks"   inside for _ in 0..TICKS_PER_FRAME                *)
(*             "draw"    tick_timers() has returned                        *)
(*             "quit"    Event::Quit broke out of 'gameloop                *)
(***************************************************************************)
\* draw_screen: the rectangles filled on the cleared canvas, one per true
\* pixel of the buffer
draw_screen(screen_buf) ==
    { [x |-> (i % SCREEN_WIDTH) * SCALE, y |-> (i \div SCREEN_HEIGHT) * SCALE,
       w |-> SCALE, h |-> SCALE] : i \in screen_buf }

\* chip8.load(&buffer), once, before the loop
HostLoad ==
    /\ host.at = "load"
    /\ load(rom)
    /\ loaded' = TRUE
    /\ host' = [host EXCEPT !.at = "events"]

\* Event::KeyDown / Event::KeyUp of a key that key2btn maps
HostKeypress ==
    /\ host.at = "events"
    /\ \E idx \in KeyInputs, pressed \in BOOLEAN : keypress(idx, pressed)
    /\ UNCHANGED host

\* Event::Quit => break 'gameloop
HostQuit ==
    /\ host.at = "events"
    /\ fault = "none"
    /\ host' = [host EXCEPT !.at = "quit"]
    /\ UNCHANGED << pc, ram, screen, v_reg, i_reg, sp, stack, keys, dt, st, fault, rom, loaded >>
    /\ Observed("quit", -1)

\* tick_timers() called after fewer than TICKS_PER_FRAME ticks
HostTickTimersEarly ==
    /\ host.at = "ticks"
    /\ tick_timers
    /\ host' = [host EXCEPT !.at = "draw", !.ticks = 0]

\* one iteration of for _ in 0..TICKS_PER_FRAME, entered when the event
\* iterator is exhausted
HostTick ==
    /\ host.at \in { "events", "ticks" }
    /\ host.ticks < TICKS_PER_FRAME
    /\ tick
    /\ host' = [host EXCEPT !.at = "ticks", !.ticks = host.ticks + 1]

\* chip8.tick_timers(), after the tick loop
HostTickTimers ==
    /\ host.at = "ticks"
    /\ host.ticks = TICKS_PER_FRAME
    /\ tick_timers
    /\ host' = [host EXCEPT !.at = "draw", !.ticks = 0]

\* draw_screen(&chip8, &mut canvas), then back to the top of the loop
HostDraw ==
    /\ host.at = "draw"
    /\ fault = "none"
    /\ host' = [host EXCEPT !.at = "events", !.canvas = draw_screen(screen)]
    /\ UNCHANGED << pc, ram, screen, v_reg, i_reg, sp, stack, keys, dt, st, fault, rom, loaded >>
    /\ Observed("get_display", -1)

HostNext ==
    \/ HostLoad
    \/ HostKeypress
    \/ HostQuit
    \/ HostTick
    \/ HostTickTimers
    \/ HostDraw

(***************************************************************************)
(* ROM images: the inputs of the model                                     *)
(***************************************************************************)
RECURSIVE Asm(_)
\* the bytes of a sequence of 16-bit words, big-endian
Asm(ops) ==
    IF ops = << >> THEN << >>
    ELSE << Head(ops) \div 256, Head(ops) % 256 >> \o Asm(Tail(ops))

\* a jump to its own address: the program stays there
Halt(addr) == 4096 + addr

\* One program that touches every field of Emu, and the five-instruction
\* program 6005 A000 F055 00E0 1200.
DemoRoms ==
    { Asm(<< \h6003, \hF015, \hF018, \hA005, \hD005, \h2210, \hF055, Halt(\h20E), \h00EE >>),
      Asm(<< \h6005, \hA000, \hF055, \h00E0, \h1200 >>) }

Init == InitWith(DemoRoms)

Spec == Init /\ [][Next]_vars

\* largest value a program of TimerRoms puts in a timer
MaxTimer == 3

\* V0 = d; delay_timer = V0; V1 = s; sound_timer = V1; halt
TimerRoms ==
    { Asm(<< \h6000 + d, \hF015, \h6100 + s, \hF118, Halt(\h208) >>) : d, s \in 0..MaxTimer }

InitTimers == InitWith(TimerRoms)

SpecTimers == InitTimers /\ [][Next]_vars

\* words outside the instruction table, and three words inside it
DecodeWords ==
    { \h8018, \h8019, \h801A, \h801B, \h801C, \h801D, \h801F,
      \h5011, \h501F, \h9011, \h901F, \h0001, \h0123, \h00E1, \h00EF, \h0FFF,
      \hE09F, \hE0A2, \hE000, \hE19E + 1, \hF000, \hF008, \hF00B, \hF030, \hF056, \hF0FF,
      \h8010, \h5010, \h9010 }

\* V0 = 5; V1 = 9; the word; halt; halt (where a skip lands)
DecodeRoms == { Asm(<< \h6005, \h6109, w, Halt(\h206), Halt(\h208) >>) : w \in DecodeWords }

InitDecode == InitWith(DecodeRoms)

SpecDecode == InitDecode /\ [][Next]_vars

(***************************************************************************)
(* C1.  Each tick_timers() call decrements delay_timer by 1 if it is       *)
(* nonzero and, independently, sound_timer by 1 if it is nonzero (so n     *)
(* calls leave max(d - n, 0) and max(s - n, 0)).                           *)
(* The code never decrements sound_timer: TLC finds this violated.         *)
(***************************************************************************)
C1_TickTimersDecrementsBoth ==
    [][ last'.call = "tick_timers" =>
          /\ dt' = (IF dt > 0 THEN dt - 1 ELSE 0)
          /\ st' = (IF st > 0 THEN st - 1 ELSE 0) ]_vars

(***************************************************************************)
(* C2.  A tick() that fetches a word matching no row of the instruction    *)
(* table ends in the fatal "unimplemented opcode" outcome and performs no  *)
(* instruction semantics.                                                  *)
(* The code runs 8XY8..8XYD and 8XYF as 8XY0: TLC finds this violated.     *)
(***************************************************************************)
\* the rows of the instruction table of the specification
InInstructionTable(op) ==
    LET n1 == Digit1(op)
        n2 == Digit2(op)
        n3 == Digit3(op)
        n4 == Digit4(op)
    IN  \/ op \in { \h0000, \h00E0, \h00EE }
        \/ n1 \in { 1, 2, 3, 4, 6, 7, 10, 11, 12, 13 }
        \/ n1 \in { 5, 9 } /\ n4 = 0
        \/ n1 = 8 /\ n4 \in { 0, 1, 2, 3, 4, 5, 6, 7, 14 }
        \/ n1 = 14 /\ op % 256 \in { \h9E, \hA1 }
        \/ n1 = 15 /\ op % 256 \in { \h07, \h0A, \h15, \h18, \h1E, \h29, \h33, \h55, \h65 }

C2_UnlistedWordIsFatal ==
    [][ (last'.call = "tick" /\ last'.op >= 0 /\ ~InInstructionTable(last'.op)) =>
          /\ fault' = "unimplemented"
          /\ UNCHANGED << ram, screen, v_reg, i_reg, sp, stack, keys, dt, st >> ]_vars

(***************************************************************************)
(* C3.  After any sequence of load, tick, tick_timers and keypress calls,  *)
(* reset() leaves every field of the machine equal to the state produced   *)
(* by construction (pc = 0x200, font at 0x000-0x04F, all else zero or      *)
(* false); a previously loaded ROM is erased.                              *)
(***************************************************************************)
C3_ResetRestoresConstruction == last.call = "reset" => NewEmu

\* a reset that acted on a machine that was not in its constructed state
C3_ResetAfterUse == last.call = "reset" /\ last.changed

(***************************************************************************)
(* FX0A programs                                                           *)
(***************************************************************************)
\* VX = 0xEE; wait for a key into VX; wait for a key into V2; halt
KeyWaitRoms ==
    { Asm(<< \h60EE + 256 * x, \hF00A + 256 * x, \hF20A, Halt(\h206) >>) : x \in {0, 1, 15} }

InitKeyWait == InitWith(KeyWaitRoms)

SpecKeyWait == InitKeyWait /\ [][Next]_vars

\* a word of the form FX0A
IsFX0A(op) == Digit1(op) = 15 /\ op % 256 = \h0A

\* pc points at an FX0A instruction
AtFX0A == ~FetchFaults /\ IsFX0A(FetchWord)

NoKeyPressed == \A k \in 0..15 : ~keys[k]

\* the smallest index of a pressed key
LowestPressed == CHOOSE k \in 0..15 : keys[k] /\ \A j \in 0..(k - 1) : ~keys[j]

(***************************************************************************)
(* C4.  While pc points at an FX0A instruction and all 16 keys are         *)
(* unpressed, a tick() leaves pc, reg[X] and every other field of the      *)
(* machine unmodified, so the machine is still waiting at the same FX0A    *)
(* after any number of consecutive ticks.                                  *)
(***************************************************************************)
C4_WaitingTickChangesNothing ==
    [][ (last'.call = "tick" /\ AtFX0A /\ NoKeyPressed) =>
          /\ UNCHANGED emu
          /\ fault' = "none"
          /\ AtFX0A' /\ NoKeyPressed' ]_vars

\* a tick has run FX0A with no key pressed, with 0xEE still in reg[X]
C4_Waited ==
    /\ last.call = "tick" /\ IsFX0A(last.op) /\ ~last.changed
    /\ AtFX0A /\ NoKeyPressed
    /\ v_reg[Digit2(FetchWord)] = \hEE

(***************************************************************************)
(* C5.  If pc points at FX0A and at least one key is pressed when tick()   *)
(* runs, that tick sets reg[X] to the smallest index k in 0..15 with       *)
(* keys[k] true and leaves pc at the following instruction (old pc + 2).   *)
(***************************************************************************)
C5_PressedKeyEndsWait ==
    [][ (last'.call = "tick" /\ AtFX0A /\ ~NoKeyPressed) =>
          /\ v_reg' = [v_reg EXCEPT ![Digit2(FetchWord)] = LowestPressed]
          /\ pc' = pc + 2
          /\ fault' = "none" ]_vars

\* FX0A has completed with keys 7 and 15 both down: reg[X] = 7
C5_LowestOfTwoTaken ==
    /\ last.call = "tick" /\ IsFX0A(last.op) /\ last.changed
    /\ ~keys[0] /\ keys[7] /\ keys[15]
    /\ v_reg[Digit2(last.op)] = 7

(***************************************************************************)
(* DXYN programs                                                           *)
(***************************************************************************)
\* largest sprite height N of the programs of DoubleDrawRoms
MaxRows == 2

\* V0 = a; V1 = b; VF = 7; I = i; draw N rows at (V0, V1), twice; halt;
\* then the sprite rows FF 81 3C 00 at 0x20E
DoubleDrawRoms ==
    { Asm(<< \h6000 + o[1], \h6100 + o[2], \h6F07, \hA000 + i, \hD010 + n, \hD010 + n,
             Halt(\h20C), \hFF81, \h3C00 >>) :
        o \in { << 0, 0 >>, << 63, 31 >>, << 60, 5 >>, << 255, 255 >> },
        i \in { 0, \h20E, \h300, \hFFF },
        n \in 0..MaxRows }

\* draw rows F0 90 of glyph 0 at (0, 0); VF = 7; draw the two rows w over it;
\* halt; then the two rows w at 0x210
OverlapRoms ==
    { Asm(<< \h6000, \h6100, \hA000, \hD012, \h6F07, \hA210, \hD012, Halt(\h20E), w >>) :
        w \in { \h800F, \h0F80, \h0F0F, \hF090, \h0000 } }

InitDraw == InitWith(DoubleDrawRoms \cup OverlapRoms)

SpecDraw == InitDraw /\ [][Next]_vars

\* a word of the form DXYN
IsDXYN(op) == Digit1(op) = 13

\* pc points at a DXYN instruction all of whose rows lie inside memory
AtDXYN == ~FetchFaults /\ IsDXYN(FetchWord) /\ i_reg + Digit4(FetchWord) <= RAM_SIZE

\* The cells of the sprite of the DXYN at pc: for each row r < N and column
\* c < 8 whose bit (0x80 >> c) is set in memory[I + r], the index
\* ((reg[X] + c) mod 64) + 64 * ((reg[Y] + r) mod 32).
SpriteCells ==
    LET op == FetchWord
        vx == v_reg[Digit2(op)]
        vy == v_reg[Digit3(op)]
    IN  { ((vx + rc[2]) % 64) + 64 * ((vy + rc[1]) % 32) :
            rc \in { q \in (0..(Digit4(op) - 1)) \X (0..7) :
                       (RamAt(ram, i_reg + q[1]) \div Pow2(7 - q[2])) % 2 = 1 } }

\* the DXYN at pc is the word the previous tick executed, and the framebuffer
\* holds exactly its sprite: what that draw leaves of an all-false framebuffer
AtSecondDraw ==
    /\ AtDXYN
    /\ last.call = "tick" /\ last.op = FetchWord
    /\ screen = SpriteCells

(***************************************************************************)
(* C6 as stated.  Starting from an all-false framebuffer, executing the    *)
(* same DXYN twice in a row yields reg[F] = 1 after the second draw and a  *)
(* framebuffer that is again all-false.                                    *)
(* Violated by a sprite without a set bit (N = 0, or only zero rows): the  *)
(* second draw unsets nothing and leaves reg[F] = 0.                       *)
(***************************************************************************)
C6_SecondDrawSetsFlag ==
    [][ (last'.call = "tick" /\ AtSecondDraw) =>
          (screen' = {} /\ v_reg'[15] = 1) ]_vars

(***************************************************************************)
(* C6 amended.  Starting from an all-false framebuffer, executing the same *)
(* DXYN twice in a row leaves the framebuffer all-false again; reg[F] is 1 *)
(* after the second draw if the sprite has at least one set bit in its N   *)
(* rows, and 0 if it has none.                                             *)
(***************************************************************************)
C6_SecondDrawErases ==
    [][ (last'.call = "tick" /\ AtSecondDraw) =>
          /\ screen' = {}
          /\ v_reg'[15] = (IF SpriteCells # {} THEN 1 ELSE 0)
          /\ fault' = "none" ]_vars

\* the second of two draws of the same sprite has run and reported a collision
C6_DrawnTwice ==
    /\ last.call = "tick" /\ IsDXYN(last.op) /\ last.changed
    /\ pc = \h20C /\ RamAt(ram, \h20A) * 256 + RamAt(ram, \h20B) = last.op
    /\ RamAt(ram, \h208) * 256 + RamAt(ram, \h209) = last.op
    /\ screen = {} /\ v_reg[15] = 1

(***************************************************************************)
(* C7.  DXYN toggles exactly the framebuffer cells                         *)
(* ((reg[X] + c) mod 64) + 64 * ((reg[Y] + r) mod 32) for each row r < N   *)
(* and column c < 8 whose bit (0x80 >> c) is set in memory[I + r], and     *)
(* changes no other cell: sprites wrap around both screen edges.  N = 0    *)
(* draws nothing.                                                          *)
(***************************************************************************)
C7_DrawTogglesSpriteCells ==
    [][ (last'.call = "tick" /\ AtDXYN) =>
          screen' = (screen \ SpriteCells) \cup (SpriteCells \ screen) ]_vars

\* the 1-row sprite 0xFF drawn at x = 63, y = 31 lit x = 63 and x = 0 .. 6 of row 31
C7_WrappedRow ==
    /\ last.call = "tick" /\ last.op = \hD011
    /\ v_reg[0] = 63 /\ v_reg[1] = 31
    /\ screen = { 64 * 31 + x : x \in {63} \cup 0..6 }

AluVals == { 0, 1, 127, 128, 255 }

\* VX = a; VY = b; 8XY4, 8XY5 or 8XY7; halt.  With X = Y both operands are b;
\* with Y = 0xF the second operand is read from the flag register.
AluRoms ==
    { Asm(<< \h6000 + 256 * xy[1] + a, \h6000 + 256 * xy[2] + b,
             \h8000 + 256 * xy[1] + 16 * xy[2] + n, Halt(\h206) >>) :
        xy \in { << 0, 1 >>, << 5, 5 >>, << 2, 15 >> },
        a \in AluVals, b \in AluVals, n \in { 4, 5, 7 } }

InitAlu == InitWith(AluRoms)

SpecAlu == InitAlu /\ [][Next]_vars

\* pc points at a word 8XYn with X # 0xF
At8XY(n) ==
    /\ ~FetchFaults
    /\ Digit1(FetchWord) = 8 /\ Digit4(FetchWord) = n
    /\ Digit2(FetchWord) # 15

\* reg[X] and reg[Y] of the word at pc
RegX == v_reg[Digit2(FetchWord)]

RegY == v_reg[Digit3(FetchWord)]

(***************************************************************************)
(* C9.  For all a = reg[X], b = reg[Y] in 0..255 (X # 0xF), 8XY4 leaves    *)
(* reg[X] = (a + b) mod 256 and reg[F] = 1 if a + b > 255, else 0.         *)
(***************************************************************************)
C9_AddWithCarry ==
    [][ (last'.call = "tick" /\ At8XY(4)) =>
          /\ v_reg'[Digit2(FetchWord)] = (RegX + RegY) % 256
          /\ v_reg'[15] = (IF RegX + RegY > 255 THEN 1 ELSE 0) ]_vars

\* 8014 has run on V0 = 255, V1 = 1: V0 = 0 with carry
C9_CarryOut ==
    /\ last.call = "tick" /\ last.op = \h8014
    /\ RamAt(ram, \h201) = 255 /\ v_reg[1] = 1
    /\ v_reg[0] = 0 /\ v_reg[15] = 1

(***************************************************************************)
(* C10.  For all a = reg[X], b = reg[Y] in 0..255 (X # 0xF): 8XY5 leaves   *)
(* reg[X] = (a - b) mod 256 with reg[F] = 0 if a < b (borrow) else 1;      *)
(* 8XY7 leaves reg[X] = (b - a) mod 256 with reg[F] = 0 if b < a else 1.   *)
(* Equal operands give result 0 and reg[F] = 1.                            *)
(***************************************************************************)
C10_SubWithBorrow ==
    [][ /\ (last'.call = "tick" /\ At8XY(5)) =>
             /\ v_reg'[Digit2(FetchWord)] = (RegX - RegY) % 256
             /\ v_reg'[15] = (IF RegX < RegY THEN 0 ELSE 1)
             /\ RegX = RegY => (v_reg'[Digit2(FetchWord)] = 0 /\ v_reg'[15] = 1)
        /\ (last'.call = "tick" /\ At8XY(7)) =>
             /\ v_reg'[Digit2(FetchWord)] = (RegY - RegX) % 256
             /\ v_reg'[15] = (IF RegY < RegX THEN 0 ELSE 1)
             /\ RegX = RegY => (v_reg'[Digit2(FetchWord)] = 0 /\ v_reg'[15] = 1) ]_vars

\* 8017 has run on V0 = 1, V1 = 0: V0 = 255 with borrow (reg[F] = 0)
C10_BorrowOut ==
    /\ last.call = "tick" /\ last.op = \h8017
    /\ RamAt(ram, \h201) = 1 /\ v_reg[1] = 0
    /\ v_reg[0] = 255 /\ v_reg[15] = 0

(***************************************************************************)
(* 7XNN programs                                                           *)
(***************************************************************************)
\* VF = 1; VX = a; 7XNN; halt.  With X = 0xF the register added to is the
\* flag register itself.
AddImmRoms ==
    { Asm(<< \h6F01, \h6000 + 256 * x + a, \h7000 + 256 * x + nn, Halt(\h206) >>) :
        x \in { 0, 14, 15 }, a \in { 0, 1, 255 }, nn \in { 0, 1, 128, 255 } }

InitAddImm == InitWith(AddImmRoms)

SpecAddImm == InitAddImm /\ [][Next]_vars

\* pc points at a word 7XNN
At7XNN == ~FetchFaults /\ Digit1(FetchWord) = 7

(***************************************************************************)
(* C11 as stated.  For all X in 0..15, all NN and all prior register       *)
(* values, 7XNN leaves reg[X] = (old reg[X] + NN) mod 256 and never sets   *)
(* reg[F]: reg[F] after the instruction equals reg[F] before it, whether   *)
(* or not the addition overflowed.                                         *)
(* Violated by X = 0xF with NN # 0: reg[F] is the register added to.       *)
(***************************************************************************)
C11_AddImmKeepsFlag ==
    [][ (last'.call = "tick" /\ At7XNN) =>
          /\ v_reg'[Digit2(FetchWord)] = (RegX + (FetchWord % 256)) % 256
          /\ v_reg'[15] = v_reg[15] ]_vars

(***************************************************************************)
(* C11 amended.  7XNN leaves reg[X] = (old reg[X] + NN) mod 256 and every  *)
(* other register as it was: for X # 0xF, reg[F] after the instruction     *)
(* equals reg[F] before it, whether or not the addition overflowed; for    *)
(* X = 0xF, reg[F] is the wrapped sum and no carry is recorded.            *)
(***************************************************************************)
C11_AddImmWrapsNoCarry ==
    [][ (last'.call = "tick" /\ At7XNN) =>
          /\ v_reg'[Digit2(FetchWord)] = (RegX + (FetchWord % 256)) % 256
          /\ \A r \in 0..15 : r # Digit2(FetchWord) => v_reg'[r] = v_reg[r]
          /\ pc' = pc + 2 /\ fault' = "none" ]_vars

\* 70FF has run on V0 = 255 with VF = 1: V0 = 254 and VF is still 1
C11_OverflowKeepsFlag ==
    /\ last.call = "tick" /\ last.op = \h70FF
    /\ RamAt(ram, \h203) = 255
    /\ v_reg[0] = 254 /\ v_reg[15] = 1

(***************************************************************************)
(* 8XY6 / 8XYE programs                                                    *)
(***************************************************************************)
\* VX = a; VY = b; 8XY6 or 8XYE; halt.  With X = Y the value shifted is b;
\* with Y = 0xF the flag register holds b before the shift.
ShiftRoms ==
    { Asm(<< \h6000 + 256 * xy[1] + a, \h6000 + 256 * xy[2] + b,
             \h8000 + 256 * xy[1] + 16 * xy[2] + n, Halt(\h206) >>) :
        xy \in { << 0, 1 >>, << 3, 3 >>, << 2, 15 >> },
        a \in { 0, 1, 2, 127, 128, 129, 255 }, b \in { 0, 255 }, n \in { 6, 14 } }

InitShift == InitWith(ShiftRoms)

SpecShift == InitShift /\ [][Next]_vars

(***************************************************************************)
(* C12.  For all v = reg[X] in 0..255 (X # 0xF): 8XY6 leaves               *)
(* reg[F] = v mod 2 and reg[X] = v div 2; 8XYE leaves reg[F] = v div 128   *)
(* and reg[X] = (2 * v) mod 256.  The flag is the bit of the pre-shift     *)
(* value, and reg[Y] plays no part in either result (it is neither read    *)
(* nor, unless it is reg[X] or reg[F], written).                           *)
(***************************************************************************)
C12_ShiftFlagsPreShiftBit ==
    [][ /\ (last'.call = "tick" /\ At8XY(6)) =>
             /\ v_reg'[15] = RegX % 2
             /\ v_reg'[Digit2(FetchWord)] = RegX \div 2
             /\ \A r \in 0..14 : r # Digit2(FetchWord) => v_reg'[r] = v_reg[r]
        /\ (last'.call = "tick" /\ At8XY(14)) =>
             /\ v_reg'[15] = RegX \div 128
             /\ v_reg'[Digit2(FetchWord)] = (2 * RegX) % 256
             /\ \A r \in 0..14 : r # Digit2(FetchWord) => v_reg'[r] = v_reg[r] ]_vars

\* 801E has run on V0 = 0x81 with V1 = 255: V0 = 2, and the flag is bit 7 of 0x81
C12_ShiftedOutHighBit ==
    /\ last.call = "tick" /\ last.op = \h801E
    /\ RamAt(ram, \h201) = 129 /\ v_reg[1] = 255
    /\ v_reg[0] = 2 /\ v_reg[15] = 1

(***************************************************************************)
(* 2NNN / 00EE programs                                                    *)
(***************************************************************************)
\* the depths the recursive program descends to: 16 fills the stack, 17
\* overflows it
CallDepths == { 1, 2, 16, 17 }

\* 0x200 call f; call g; halt.  0x206 f: call g; return.  0x20A g: return.
NestedCallRom == Asm(<< \h2206, \h220A, Halt(\h204), \h220A, \h00EE, \h00EE >>)

\* 0x200 V0 = 0; call f; halt.  0x206 f: V0 += 1; unless V0 = d, call f; return.
RecursiveCallRoms ==
    { Asm(<< \h6000, \h2206, Halt(\h204), \h7001, \h3000 + d, \h2206, \h00EE >>) :
        d \in CallDepths }

InitCall == InitWith({ NestedCallRom } \cup RecursiveCallRoms)

SpecCall == InitCall /\ [][Next]_vars

(***************************************************************************)
(* C13.  If a 2NNN instruction located at address a is executed and later  *)
(* its matching 00EE is executed (with any balanced nesting of further     *)
(* calls and returns in between, depth at most 16), then after that 00EE   *)
(* pc = a + 2 and stack_pointer equals its value before the call; returns  *)
(* happen in last-in-first-out order of the calls.                         *)
(***************************************************************************)
C13_ReturnFollowsCall ==
    [][ (last'.call = "tick" /\ ~FetchFaults /\ FetchWord = \h00EE /\ last.calls # << >>) =>
          LET latest == last.calls[Len(last.calls)]
          IN  /\ pc' = latest.at + 2
              /\ sp' = latest.sp
              /\ fault' = "none" ]_vars

\* g, called from f at 0x206, has returned into f at 0x208 while the call of
\* f at 0x200 is still in progress
C13_InnerReturn ==
    /\ last.call = "tick" /\ last.op = \h00EE
    /\ pc = \h208 /\ sp = 1
    /\ last.calls = << [at |-> \h200, sp |-> 0] >>

(***************************************************************************)
(* The five-instruction program                                            *)
(***************************************************************************)
\* the 10 bytes 60 05 A0 00 F0 55 00 E0 12 00
LoopRom == Asm(<< \h6005, \hA000, \hF055, \h00E0, \h1200 >>)

InitLoop == InitWith({ LoopRom })

SpecLoop == InitLoop /\ [][Next]_vars

(***************************************************************************)
(* C14.  After constructing the machine and load()ing the 10-byte ROM      *)
(* 60 05 A0 00 F0 55 00 E0 12 00, five tick() calls leave reg[0] = 5,      *)
(* index_register = 0, memory[0] = 5, every display pixel false and        *)
(* pc = 0x200; from then on the machine repeats the same five instructions *)
(* forever: pc stays within 0x200..0x208 at every tick boundary and no     *)
(* tick ever faults.                                                       *)
(* Every tick moves pc one instruction round the cycle 0x200, 0x202,       *)
(* 0x204, 0x206, 0x208, 0x200, so the fifth tick after a load, and every   *)
(* fifth one after it, is the one that arrives at 0x200.                   *)
(***************************************************************************)
C14_FiveInstructionLoop ==
    [][ last'.call = "tick" =>
          /\ fault' = "none"
          /\ pc \in { \h200, \h202, \h204, \h206, \h208 }
          /\ pc' = (IF pc = \h208 THEN \h200 ELSE pc + 2)
          /\ pc' = \h200 =>
                /\ v_reg'[0] = 5
                /\ i_reg' = 0
                /\ RamAt(ram', 0) = 5
                /\ screen' = {} ]_vars

\* the jump at 0x208 has run: the machine is back at 0x200 with the byte
\* 0xF0 of glyph 0 at address 0 replaced by 5
C14_BackAtStart ==
    /\ last.call = "tick" /\ last.op = \h1200
    /\ pc = \h200 /\ v_reg[0] = 5 /\ i_reg = 0 /\ RamAt(ram, 0) = 5 /\ screen = {}

(***************************************************************************)
(* Programs that leave the memory                                          *)
(***************************************************************************)
\* jump to 0xFFF; jump to 0xFFE (a no-op there, then 0x1000); V0 = 0xFF and
\* jump to V0 + 0xFFF; V0 = 1 and jump to V0 + 0xFFD; the skip 4000 stored
\* at 0xFFE and jumped to (then 0x1002); a program that stays at 0x200
RunOffRoms ==
    { Asm(<< \h1FFF >>),
      Asm(<< \h1FFE >>),
      Asm(<< \h60FF, \hBFFF >>),
      Asm(<< \h6001, \hBFFD >>),
      Asm(<< \h6040, \h6100, \hAFFE, \hF155, \h1FFE >>),
      Asm(<< Halt(\h200) >>) }

InitRunOff == InitWith(RunOffRoms)

SpecRunOff == InitRunOff /\ [][Next]_vars

(***************************************************************************)
(* C15 as stated.  program_counter is always less than the memory size     *)
(* (4096) when a fetch happens: in every state reachable by load / tick /  *)
(* tick_timers / keypress / reset from construction, at the start of       *)
(* tick() both pc and pc + 1 are valid memory addresses.                   *)
(* Violated: 1FFF leaves pc = 0xFFF, and a jump, skip or plain advance at  *)
(* 0xFFE leaves pc >= 0x1000.                                              *)
(***************************************************************************)
C15_PcAlwaysInMemory == fault = "none" => (pc < RAM_SIZE /\ pc + 1 < RAM_SIZE)

(***************************************************************************)
(* C15 amended.  The core checks the program counter at the fetch and does *)
(* not keep it in range: a tick() that starts with pc + 1 < 4096 fetches   *)
(* the word at memory[pc], memory[pc + 1]; a tick() that starts with       *)
(* pc >= 4095 (reachable by 1NNN, BNNN, a skip, or running past 0xFFE)     *)
(* fails with index out of bounds and changes no field of the machine.     *)
(***************************************************************************)
C15_FetchChecksPc ==
    [][ last'.call = "tick" =>
          IF pc + 1 < RAM_SIZE
          THEN last'.op = RamAt(ram, pc) * 256 + RamAt(ram, pc + 1)
          ELSE fault' = "index out of bounds" /\ UNCHANGED emu ]_vars

\* a tick at pc = 0xFFF, where only memory[pc + 1] is outside, has failed
C15_FetchFailedAtLastByte ==
    /\ last.call = "tick" /\ last.op = -1
    /\ pc = \hFFF /\ fault = "index out of bounds"

(***************************************************************************)
(* C16.  Immediately after construction and immediately after every        *)
(* reset(), for each c in 0..15 the five memory bytes at addresses         *)
(* 5c .. 5c+4 are the five rows of hexadecimal glyph c from the fixed font *)
(* table, and memory bytes 0x050..0xFFF are zero.                          *)
(***************************************************************************)
\* row r (0 .. 4) of glyph c in the font table
GlyphRow(c, r) == FONTSET[5 * c + r + 1]

C16_FontAfterNewAndReset ==
    last.call \in { "new", "reset" } =>
        /\ \A c \in 0..15 : \A r \in 0..4 : RamAt(ram, 5 * c + r) = GlyphRow(c, r)
        /\ \A a \in \h050..\hFFF : RamAt(ram, a) = 0

\* reset() has changed a machine that held the five-instruction program:
\* glyph 0 starts with 0xF0 at 0x00 and glyph F ends with 0x80 at 0x4F
C16_FontRestored ==
    /\ last.call = "reset" /\ last.changed
    /\ rom = LoopRom
    /\ RamAt(ram, 0) = \hF0 /\ RamAt(ram, \h4F) = \h80

(***************************************************************************)
(* Programs that are loaded again after they ran                           *)
(***************************************************************************)
\* V0 = 0xAB; I = a; store V0 at I; halt; the data bytes 00 FF.  The 10 bytes
\* occupy 0x200..0x209: a is the last address below the ROM, its first and
\* last byte, the first byte after it, and the last byte of memory.
StoreRoms ==
    { Asm(<< \h60AB, \hA000 + a, \hF055, Halt(\h206), \h00FF >>) :
        a \in { \h1FF, \h200, \h209, \h20A, \hFFF } }

\* a ROM of the largest length that fits, RAM_SIZE - START_ADDR bytes: a halt
\* at 0x200, zeros, and 0xAA as its last byte (address 0xFFF)
FullRom ==
    [i \in 1..(RAM_SIZE - START_ADDR) |->
        IF i = 1 THEN \h12 ELSE IF i = RAM_SIZE - START_ADDR THEN \hAA ELSE 0]

InitReload == InitWith(StoreRoms \cup { FullRom })

SpecReload == InitReload /\ [][Next]_vars

(***************************************************************************)
(* C17.  For a ROM of length n <= 3584, load(rom) makes                    *)
(* memory[0x200 + i] = rom[i] for all i < n and changes nothing else:      *)
(* memory below 0x200 (including the font) and at or above 0x200 + n, pc,  *)
(* registers, index register, stack, stack pointer, keys, timers and       *)
(* display are all unchanged (so bytes left beyond the end of the new ROM  *)
(* survive, and pc is not moved back to 0x200).                            *)
(***************************************************************************)
C17_LoadWritesOnlyRomBytes ==
    [][ (last'.call = "load" /\ Len(rom) <= 3584) =>
          /\ \A a \in 0..4095 :
                RamAt(ram', a) = (IF a >= 512 /\ a < 512 + Len(rom)
                                  THEN rom[a - 512 + 1]
                                  ELSE RamAt(ram, a))
          /\ UNCHANGED << pc, v_reg, i_reg, sp, stack, keys, dt, st, screen >>
          /\ fault' = "none" ]_vars

\* the 10-byte ROM has been loaded again after it ran: the byte the program
\* stored at 0x20A, just past its end, is still there and pc is still 0x206
C17_ReloadKeepsTheRest ==
    /\ last.call = "load"
    /\ Len(rom) = 10 /\ pc = \h206
    /\ RamAt(ram, \h20A) = \hAB /\ v_reg[0] = \hAB /\ i_reg = \h20A

(***************************************************************************)
(* C18.  Every call to tick() terminates after exactly one fetch and one   *)
(* execute, for every machine state and every key state; in particular     *)
(* tick() on FX0A with no key pressed returns (re-arming the instruction)  *)
(* rather than looping inside the call waiting for input.                  *)
(* A call that returns is a step with a state after it: in every state in  *)
(* which the host can call tick(), the call has an outcome, and at an FX0A *)
(* with no key down that outcome is the same machine at the same FX0A.     *)
(***************************************************************************)
C18_TickReturns ==
    (fault = "none" /\ loaded) =>
        /\ ENABLED Tick
        /\ (AtFX0A /\ NoKeyPressed) => ENABLED (Tick /\ UNCHANGED emu)

\* tick() has returned from the second wait, F20A at 0x204, with no key down
\* (the key that ended the first wait was released): it is armed again
C18_SecondWaitReturned ==
    /\ last.call = "tick" /\ last.op = \hF20A /\ ~last.changed
    /\ pc = \h204 /\ NoKeyPressed /\ AtFX0A
    /\ v_reg[2] = 0

(***************************************************************************)
(* C19.  tick_timers() never takes a timer below zero and never reloads    *)
(* it: a timer that is 0 before the call is 0 after it, no timer value is  *)
(* larger after the call than before it, and the call changes no machine   *)
(* component other than delay_timer and sound_timer.                       *)
(***************************************************************************)
C19_TimersNeverRiseOrUnderflow ==
    [][ last'.call = "tick_timers" =>
          /\ dt' \in 0..dt /\ st' \in 0..st
          /\ dt = 0 => dt' = 0
          /\ st = 0 => st' = 0
          /\ UNCHANGED << pc, ram, screen, v_reg, i_reg, sp, stack, keys >>
          /\ fault' = "none" ]_vars

\* tick_timers() has run with delay_timer at 0 and left it at 0, after the
\* program had set the delay timer to 0 and the sound timer to 2
C19_ZeroStaysZero ==
    /\ last.call = "tick_timers" /\ ~last.changed
    /\ pc = \h208 /\ v_reg[0] = 0 /\ v_reg[1] = 2
    /\ dt = 0 /\ st = 2

(***************************************************************************)
(* A program that runs every kind of instruction over a lit display        *)
(***************************************************************************)
\* 0x200 draw glyph 0 at (0, 0);
\* 0x204 6XNN, 7XNN and the 8XY_ group on V0, V1;
\* 0x21A V0 = 0, the four skips (each over a no-op);
\* 0x22C random, the two key skips on key 0;
\* 0x236 read the delay timer, wait for a key into V2, set both timers;
\* 0x23E I = 0x300, I += V2, BCD, store and load V0..V1, I = glyph of V0;
\* 0x24A call 0x252 (which returns), jump to V0 + 0x250, jump to 0x254;
\* 0x254 clear the display; halt
AllOpsRom ==
    Asm(<< \hA000, \hD005,
           \h6103, \h7101, \h8010, \h8011, \h8012, \h8013, \h8014, \h8015, \h8016,
           \h8017, \h801E,
           \h6000, \h3000, \h0000, \h4000, \h0000, \h5010, \h0000, \h9010, \h0000,
           \hC101, \hE09E, \h0000, \hE0A1, \h0000,
           \hF107, \hF20A, \hF215, \hF218,
           \hA300, \hF21E, \hF233, \hF155, \hF165, \hF029,
           \h2252, \hB250, \h0000, \h1254, \h00EE,
           \h00E0, Halt(\h256) >>)

InitAllOps == InitWith({ AllOpsRom })

SpecAllOps == InitAllOps /\ [][Next]_vars

\* the pixels of glyph 0 (rows F0 90 90 90 F0) drawn at (0, 0)
GlyphZeroPixels == { 0, 1, 2, 3, 64, 67, 128, 131, 192, 195, 256, 257, 258, 259 }

(***************************************************************************)
(* C20.  The display framebuffer is mutated only by the clear-screen       *)
(* (00E0) and draw-sprite (DXYN) instructions: a tick() executing any      *)
(* other instruction, and any call to tick_timers(), keypress() or load(), *)
(* leaves all 2048 pixels unchanged; 00E0 sets all of them to false.       *)
(***************************************************************************)
C20_OnlyClearAndDrawTouchDisplay ==
    [][ /\ last'.call \in { "tick_timers", "keypress", "load" } => screen' = screen
        /\ (last'.call = "tick" /\ last'.op # \h00E0 /\ ~IsDXYN(last'.op)) => screen' = screen
        /\ (last'.call = "tick" /\ last'.op = \h00E0) => screen' = {} ]_vars

\* the BCD store at 0x242 has run, long after the draw at 0x202, and the
\* display still shows glyph 0
C20_GlyphStillShown ==
    /\ last.call = "tick" /\ last.op = \hF233
    /\ pc = \h244
    /\ screen = GlyphZeroPixels

(***************************************************************************)
(* C21.  The keys array is written only through keypress: keypress(i, p)   *)
(* with i < 16 sets keys[i] = p and changes no other key and no other      *)
(* machine component, and no tick() (for any instruction, including EX9E,  *)
(* EXA1 and FX0A) and no tick_timers() or load() ever changes any key      *)
(* flag.                                                                   *)
(***************************************************************************)
C21_KeysWrittenOnlyByKeypress ==
    [][ /\ \A i \in 0..15, p \in BOOLEAN :
              keypress(i, p) =>
                  /\ keys' = [k \in 0..15 |-> IF k = i THEN p ELSE keys[k]]
                  /\ UNCHANGED << pc, ram, screen, v_reg, i_reg, sp, stack, dt, st >>
                  /\ fault' = "none"
        /\ last'.call \in { "tick", "tick_timers", "load" } => keys' = keys ]_vars

\* the wait F20A has taken key 7, and keys 7 and 15 are still down after it
C21_KeyStillDownAfterWait ==
    /\ last.call = "tick" /\ last.op = \hF20A /\ last.changed
    /\ v_reg[2] = 7
    /\ ~keys[0] /\ keys[7] /\ keys[15]

(***************************************************************************)
(* 3XNN / 4XNN / 5XY0 / 9XY0 programs                                      *)
(***************************************************************************)
\* the skip words: X = 0 against NN = 5, 0 and 255; X = 0 against Y = 1;
\* X = Y = 1
SkipWords ==
    { \h3005, \h3000, \h30FF, \h4005, \h4000, \h40FF, \h5010, \h9010, \h5110, \h9110 }

\* V0 = a; V1 = b; the skip; halt; halt (where a skip lands)
SkipRoms ==
    { Asm(<< \h6000 + ab[1], \h6100 + ab[2], w, Halt(\h206), Halt(\h208) >>) :
        ab \in { << 5, 5 >>, << 5, 9 >>, << 0, 255 >>, << 255, 0 >> }, w \in SkipWords }

InitSkip == InitWith(SkipRoms)

SpecSkip == InitSkip /\ [][Next]_vars

\* pc points at one of the four skip instructions
AtSkip ==
    /\ ~FetchFaults
    /\ \/ Digit1(FetchWord) \in { 3, 4 }
       \/ Digit1(FetchWord) \in { 5, 9 } /\ Digit4(FetchWord) = 0

\* the condition of the skip instruction at pc
SkipCondition ==
    LET nn == FetchWord % 256
    IN  CASE Digit1(FetchWord) = 3 -> RegX = nn
          [] Digit1(FetchWord) = 4 -> RegX # nn
          [] Digit1(FetchWord) = 5 -> RegX = RegY
          [] Digit1(FetchWord) = 9 -> RegX # RegY

(***************************************************************************)
(* C22.  For a skip instruction fetched at address a, pc after the tick is *)
(* a + 4 when the condition holds and a + 2 otherwise, where the condition *)
(* is reg[X] == NN for 3XNN, reg[X] != NN for 4XNN, reg[X] == reg[Y] for   *)
(* 5XY0 and reg[X] != reg[Y] for 9XY0; no register, memory, stack or flag  *)
(* is changed by a skip instruction.                                       *)
(***************************************************************************)
C22_SkipAdvancesByFourOrTwo ==
    [][ (last'.call = "tick" /\ AtSkip) =>
          /\ pc' = (IF SkipCondition THEN pc + 4 ELSE pc + 2)
          /\ UNCHANGED << v_reg, ram, stack, sp, i_reg, screen, keys, dt, st >>
          /\ fault' = "none" ]_vars

\* 9010 at 0x204 has run on V0 = 5, V1 = 9 and skipped the halt at 0x206
C22_SkippedOnUnequal ==
    /\ last.call = "tick" /\ last.op = \h9010
    /\ v_reg[0] = 5 /\ v_reg[1] = 9
    /\ pc = \h208

(***************************************************************************)
(* The game loop running a program                                         *)
(***************************************************************************)
\* V0 = x; V1 = y; I = 0x00D (the font byte 0x80: one pixel); draw one row
\* at (V0, V1); halt
PixelRoms ==
    { Asm(<< \h6000 + xy[1], \h6100 + xy[2], \hA00D, \hD011, Halt(\h208) >>) :
        xy \in { << 0, 0 >>, << 31, 0 >>, << 32, 0 >>, << 0, 1 >>, << 5, 16 >>, << 63, 31 >> } }

InitHost == InitWith(PixelRoms \cup { LoopRom })

SpecHost == InitHost /\ [][HostNext]_vars

\* the calls after which the host is at the top of the loop, polling events
FrameStartCalls == { "load", "get_display", "keypress" }

(***************************************************************************)
(* C23.  The host drives the core in the fixed order: load(rom) exactly    *)
(* once before any tick(), then forever per frame: apply pending key       *)
(* events via keypress, then exactly TICKS_PER_FRAME (10) tick() calls,    *)
(* then exactly one tick_timers(), then one render of get_display();       *)
(* reset() is never called and no other call order occurs until the host   *)
(* quits.                                                                  *)
(***************************************************************************)
C23_HostCallOrder ==
    [][ /\ TICKS_PER_FRAME = 10
        /\ last'.call \in { "load", "keypress", "tick", "tick_timers", "get_display", "quit" }
        /\ last'.call = "load" => last.call = "new"
        /\ last'.call = "keypress" => last.call \in FrameStartCalls
        /\ last'.call = "tick" =>
              \/ last.call \in FrameStartCalls /\ host'.ticks = 1
              \/ last.call = "tick" /\ host.ticks < 10 /\ host'.ticks = host.ticks + 1
        /\ last'.call = "tick_timers" => (last.call = "tick" /\ host.ticks = 10)
        /\ last'.call = "get_display" => last.call = "tick_timers"
        /\ last'.call = "quit" => last.call \in FrameStartCalls ]_vars

\* the first frame of the five-instruction program has been rendered: its ten
\* ticks went twice round the loop, back to 0x200
C23_FrameRendered ==
    /\ last.call = "get_display" /\ host.at = "events"
    /\ rom = LoopRom
    /\ pc = \h200 /\ v_reg[0] = 5 /\ RamAt(ram, 0) = 5

(***************************************************************************)
(* C26.  The host renderer is the inverse of the core's framebuffer        *)
(* indexing: a pixel the core lights for screen coordinate (x, y), stored  *)
(* at index x + 64*y, is drawn by draw_screen at column x and row y        *)
(* (scaled by SCALE), for every x in 0..63 and y in 0..31, and every drawn *)
(* rectangle lies inside the 64x32 scaled window.                          *)
(* draw_screen computes the row as i / SCREEN_HEIGHT: TLC finds this       *)
(* violated.                                                               *)
(***************************************************************************)
C26_RendererInvertsIndexing ==
    last.call = "get_display" =>
        /\ host.canvas =
              { [x |-> xy[1] * 15, y |-> xy[2] * 15, w |-> 15, h |-> 15] :
                  xy \in { c \in (0..63) \X (0..31) : c[1] + 64 * c[2] \in screen } }
        /\ \A r \in host.canvas : r.x + r.w <= 64 * 15 /\ r.y + r.h <= 32 * 15

(***************************************************************************)
(* FX33 programs                                                           *)
(***************************************************************************)
\* V3 = v; I = 0x300; BCD of V3; halt - for every byte v; and for three
\* values, V0 = v; I = 0 (the digits land on the font)
BcdRoms ==
    { Asm(<< \h6300 + v, \hA300, \hF333, Halt(\h206) >>) : v \in 0..255 }
    \cup { Asm(<< \h6000 + v, \hA000, \hF033, Halt(\h206) >>) : v \in { 0, 109, 255 } }

InitBcd == InitWith(BcdRoms)

SpecBcd == InitBcd /\ [][Next]_vars

\* pc points at an FX33 whose three bytes lie inside memory
AtFX33 ==
    /\ ~FetchFaults
    /\ Digit1(FetchWord) = 15 /\ FetchWord % 256 = \h33
    /\ i_reg + 2 < RAM_SIZE

(***************************************************************************)
(* C24.  For every v = reg[X] in 0..255, FX33 stores memory[I] = v div 100,*)
(* memory[I+1] = (v div 10) mod 10 and memory[I+2] = v mod 10, so that     *)
(* 100*memory[I] + 10*memory[I+1] + memory[I+2] = v with each stored digit *)
(* in 0..9; reg[X], index_register and all other memory bytes are          *)
(* unchanged.                                                              *)
(***************************************************************************)
C24_BcdDigits ==
    [][ (last'.call = "tick" /\ AtFX33) =>
          /\ RamAt(ram', i_reg) = RegX \div 100
          /\ RamAt(ram', i_reg + 1) = (RegX \div 10) % 10
          /\ RamAt(ram', i_reg + 2) = RegX % 10
          /\ 100 * RamAt(ram', i_reg) + 10 * RamAt(ram', i_reg + 1) + RamAt(ram', i_reg + 2) = RegX
          /\ \A k \in 0..2 : RamAt(ram', i_reg + k) \in 0..9
          /\ \A a \in 0..4095 : a \notin i_reg..(i_reg + 2) => RamAt(ram', a) = RamAt(ram, a)
          /\ v_reg' = v_reg /\ i_reg' = i_reg
          /\ fault' = "none" ]_vars

\* F333 has stored the digits 2, 5, 5 of V3 = 255 at 0x300
C24_DigitsOf255 ==
    /\ last.call = "tick" /\ last.op = \hF333
    /\ v_reg[3] = 255 /\ i_reg = \h300
    /\ RamAt(ram, \h300) = 2 /\ RamAt(ram, \h301) = 5 /\ RamAt(ram, \h302) = 5

(***************************************************************************)
(* Programs that set, read and run past the timers                         *)
(***************************************************************************)
\* V0 = d; delay_timer = V0; V2 = s; sound_timer = V2; V1 = delay_timer;
\* V1 += 1; I = 0x300; store V0..V1; V1 = delay_timer again; halt
TimerUseRoms ==
    { Asm(<< \h6000 + d, \hF015, \h6200 + s, \hF218, \hF107, \h7101, \hA300, \hF155,
             \hF107, Halt(\h212) >>) : d, s \in 0..MaxTimer }

InitTimerUse == InitWith(TimerUseRoms)

SpecTimerUse == InitTimerUse /\ [][Next]_vars

\* a word FXnn with the given low byte
IsFXnn(op, low) == op >= 0 /\ Digit1(op) = 15 /\ op % 256 = low

(***************************************************************************)
(* C25.  The timers count down independently of the instruction cycle: a   *)
(* tick() changes delay_timer only when it executes FX15                   *)
(* (delay_timer = reg[X]) and changes sound_timer only when it executes    *)
(* FX18 (sound_timer = reg[X]); no other instruction and no number of      *)
(* tick() calls decrements or otherwise alters either timer, and FX07      *)
(* reads delay_timer into reg[X] without changing it.                      *)
(***************************************************************************)
C25_TicksLeaveTimersAlone ==
    [][ last'.call = "tick" =>
          /\ dt' = (IF IsFXnn(last'.op, \h15) THEN v_reg[Digit2(last'.op)] ELSE dt)
          /\ st' = (IF IsFXnn(last'.op, \h18) THEN v_reg[Digit2(last'.op)] ELSE st)
          /\ IsFXnn(last'.op, \h07) => v_reg' = [v_reg EXCEPT ![Digit2(last'.op)] = dt] ]_vars

\* the second F107 has read a delay timer that tick_timers() had taken from
\* 3 to 1 since the first read (V0 = 3, stored V1 = 3 + 1), and left it at 1
C25_ReadCountedDownTimer ==
    /\ last.call = "tick" /\ last.op = \hF107 /\ pc = \h212
    /\ v_reg[0] = 3 /\ RamAt(ram, \h301) = 4
    /\ v_reg[1] = 1 /\ dt = 1

(***************************************************************************)
(* Programs that use the flag register as an operand                       *)
(***************************************************************************)
\* the flag-setting 8XY_ instructions, by last digit
FlagOps == { 4, 5, 7, 6, 14 }

\* operand pairs: carry, borrow, equal, zero, a high bit and a low bit
AliasVals == { << 255, 1 >>, << 1, 255 >>, << 3, 3 >>, << 0, 0 >>, << 129, 2 >> }

\* VX = a; VY = b; 8XYn; halt - with X = 0xF, with Y = 0xF, and with both
\* (then both operands are b)
AliasAluRoms ==
    { Asm(<< \h6000 + 256 * xy[1] + ab[1], \h6000 + 256 * xy[2] + ab[2],
             \h8000 + 256 * xy[1] + 16 * xy[2] + n, Halt(\h206) >>) :
        xy \in { << 15, 1 >>, << 2, 15 >>, << 15, 15 >> }, ab \in AliasVals, n \in FlagOps }

\* V1 = 2; VF = 5; I = 0 (glyph 0); draw 5 rows at (VF, V1), at (V1, VF) or
\* at (VF, VF); halt
AliasDrawRoms ==
    { Asm(<< \h6102, \h6F05, \hA000, w, Halt(\h208) >>) : w \in { \hDF15, \hD1F5, \hDFF5 } }

InitAlias == InitWith(AliasAluRoms \cup AliasDrawRoms)

SpecAlias == InitAlias /\ [][Next]_vars

\* pc points at a flag-setting 8XY_ instruction, X and Y unrestricted
AtFlagOp ==
    /\ ~FetchFaults
    /\ Digit1(FetchWord) = 8 /\ Digit4(FetchWord) \in FlagOps

\* the flag of instruction 8XYn on a = reg[X], b = reg[Y]
FlagOf(n, a, b) ==
    CASE n = 4 -> IF a + b > 255 THEN 1 ELSE 0
      [] n = 5 -> IF a < b THEN 0 ELSE 1
      [] n = 7 -> IF b < a THEN 0 ELSE 1
      [] n = 6 -> a % 2
      [] n = 14 -> a \div 128

\* the result of instruction 8XYn on a = reg[X], b = reg[Y]
ResultOf(n, a, b) ==
    CASE n = 4 -> (a + b) % 256
      [] n = 5 -> (a - b) % 256
      [] n = 7 -> (b - a) % 256
      [] n = 6 -> a \div 2
      [] n = 14 -> (2 * a) % 256

(***************************************************************************)
(* C27.  reg[0xF] is an ordinary register that flag-setting instructions   *)
(* read before they overwrite it: for 8XY4, 8XY5, 8XY7, 8XY6 and 8XYE with *)
(* X = 0xF the final reg[F] is the flag (0 or 1), not the arithmetic or    *)
(* shift result; with Y = 0xF the operand used is the value reg[F] held    *)
(* before the instruction; and DXYN with X or Y = 0xF uses the             *)
(* pre-instruction reg[F] as the coordinate.                               *)
(***************************************************************************)
C27_FlagRegisterReadBeforeWritten ==
    [][ /\ (last'.call = "tick" /\ AtFlagOp) =>
             /\ v_reg'[15] = FlagOf(Digit4(FetchWord), RegX, RegY)
             /\ Digit2(FetchWord) # 15 =>
                   v_reg'[Digit2(FetchWord)] = ResultOf(Digit4(FetchWord), RegX, RegY)
        /\ (last'.call = "tick" /\ AtDXYN) =>
             /\ screen' = (screen \ SpriteCells) \cup (SpriteCells \ screen)
             /\ v_reg'[15] = (IF \E p \in screen : p \notin screen' THEN 1 ELSE 0) ]_vars

\* 8F14 has run on VF = 255, V1 = 1: VF is the carry 1, not the sum 0
C27_FlagNotSum ==
    /\ last.call = "tick" /\ last.op = \h8F14
    /\ RamAt(ram, \h201) = 255 /\ v_reg[1] = 1
    /\ v_reg[15] = 1

(***************************************************************************)
(* C28.  In every reachable non-faulted state 0 <= stack_pointer <= 16,    *)
(* stack_pointer equals the number of 2NNN calls executed minus the number *)
(* of 00EE returns executed since construction or the last reset, and      *)
(* stack[0 .. stack_pointer-1] holds the return addresses of the pending   *)
(* calls in call order; only 2NNN, 00EE and reset change stack or          *)
(* stack_pointer.                                                          *)
(* last.calls gains an entry per 2NNN executed and loses one per 00EE      *)
(* executed, and is emptied by reset: its length is that difference.       *)
(***************************************************************************)
C28_StackTracksPendingCalls ==
    [][ /\ fault' = "none" =>
              /\ sp' \in 0..16
              /\ sp' = Len(last'.calls)
              /\ \A i \in 1..Len(last'.calls) : stack'[i - 1] = last'.calls[i].at + 2
        /\ ( \/ last'.call \in { "keypress", "load", "tick_timers" }
             \/ last'.call = "tick" /\ last'.op # \h00EE /\ Digit1(last'.op) # 2 ) =>
              UNCHANGED << sp, stack >> ]_vars

\* sixteen calls are pending: the first from 0x202, the other fifteen from 0x20A
C28_StackFull ==
    /\ fault = "none" /\ sp = 16 /\ Len(last.calls) = 16
    /\ stack[0] = \h204 /\ stack[1] = \h20C /\ stack[15] = \h20C

(***************************************************************************)
(* Programs that misuse the stack                                          *)
(***************************************************************************)
\* a return with nothing to return from; a subroutine that calls itself for
\* ever; and 0x200 V0 = 0; call f; return (with no call pending).
\* 0x206 f: V0 += 1; unless V0 = 16, call f; return - which leaves 0x20C in
\* stack[15] and 0x204 in stack[0] when the return at 0x204 runs.
StackMisuseRoms ==
    { Asm(<< \h00EE >>),
      Asm(<< \h2200 >>),
      Asm(<< \h6000, \h2206, \h00EE, \h7001, \h3010, \h2206, \h00EE >>) }

InitStackMisuse == InitWith(StackMisuseRoms)

SpecStackMisuse == InitStackMisuse /\ [][Next]_vars

(***************************************************************************)
(* C29.  Stack misuse is a fatal fault, never a silent wraparound: a 2NNN  *)
(* executed when 16 calls are already pending, and a 00EE executed when no *)
(* call is pending, each end the tick in a fault; neither overwrites       *)
(* stack[0], reads stack[15] as a return address, nor continues execution  *)
(* with a wrapped stack_pointer.                                           *)
(***************************************************************************)
C29_StackMisuseIsFatal ==
    [][ /\ fault = "none"
        /\ (last'.call = "tick" /\ ~FetchFaults /\ Digit1(FetchWord) = 2
                /\ Len(last.calls) = 16) =>
              /\ fault' # "none"
              /\ stack' = stack /\ sp' = sp
        /\ (last'.call = "tick" /\ ~FetchFaults /\ FetchWord = \h00EE
                /\ last.calls = << >>) =>
              /\ fault' # "none"
              /\ stack' = stack
              /\ pc' = pc + 2 ]_vars

\* the return at 0x204 has run with no call pending and 0x20C in stack[15]:
\* the tick faulted and pc is not 0x20C
C29_ReturnWithoutCall ==
    /\ last.call = "tick" /\ last.op = \h00EE /\ last.calls = << >>
    /\ fault # "none"
    /\ stack[15] = \h20C /\ stack[0] = \h204 /\ pc = \h206

(***************************************************************************)
(* Programs that address the last bytes of memory and beyond               *)
(***************************************************************************)
\* the offsets added to 0xFFD: I = 0xFFD, 0xFFE, 0xFFF, 0x1000, 0x10FC
EdgeOffsets == { 0, 1, 2, 3, 255 }

\* draws of 0 to 3 rows, the BCD store, and block transfers of 1 to 3 registers
EdgeOps ==
    { \hD000, \hD001, \hD002, \hD003, \hF133,
      \hF055, \hF155, \hF255, \hF065, \hF165, \hF265 }

\* 0x200  V0 = d; V1 = 123; V2 = 42; I = 0xFFD; I += V0; op; halt
EdgeRoms ==
    { Asm(<< \h6000 + d, \h617B, \h622A, \hAFFD, \hF01E, op, Halt(\h20C) >>) :
        d \in EdgeOffsets, op \in EdgeOps }

\* jumps that put pc at 0xFFE, 0xFFF and 0x1001
EdgeJumpRoms ==
    { Asm(<< \h1FFE >>), Asm(<< \h1FFF >>), Asm(<< \h6002, \hBFFF >>) }

InitEdge == InitWith(EdgeRoms \cup EdgeJumpRoms)

SpecEdge == InitEdge /\ [][Next]_vars

\* the instruction at pc is a DXYN, FX33, FX55 or FX65
AtMemoryOp ==
    /\ ~FetchFaults
    /\ \/ Digit1(FetchWord) = 13
       \/ IsFXnn(FetchWord, \h33)
       \/ IsFXnn(FetchWord, \h55)
       \/ IsFXnn(FetchWord, \h65)

\* the highest address the instruction at pc accesses is outside memory
AddressesPastEnd ==
    CASE Digit1(FetchWord) = 13 ->
             Digit4(FetchWord) > 0 /\ i_reg + Digit4(FetchWord) - 1 >= RAM_SIZE
      [] IsFXnn(FetchWord, \h33) -> i_reg + 2 >= RAM_SIZE
      [] IsFXnn(FetchWord, \h55) \/ IsFXnn(FetchWord, \h65) ->
             i_reg + Digit2(FetchWord) >= RAM_SIZE
      [] OTHER -> FALSE

\* the number of sprite rows of the DXYN at pc whose address is inside memory
RowsInMemory ==
    IF i_reg >= RAM_SIZE THEN 0
    ELSE IF i_reg + Digit4(FetchWord) > RAM_SIZE THEN RAM_SIZE - i_reg
    ELSE Digit4(FetchWord)

(***************************************************************************)
(* C30.  Memory addressing never wraps or clamps: a fetch with             *)
(* pc + 1 >= 4096, a DXYN row read at index_register + row >= 4096, an     *)
(* FX33 store with index_register + 2 >= 4096, and an FX55/FX65 transfer   *)
(* with index_register + X >= 4096 each end the tick in a fatal            *)
(* out-of-bounds fault instead of accessing address mod 4096; with         *)
(* in-range addresses none of these instructions faults.                   *)
(* Not accessing address mod 4096: a store changes no byte below           *)
(* index_register, a load changes no register whose address is past the    *)
(* end, and a draw shows only the rows whose address is inside memory.     *)
(***************************************************************************)
C30_AddressingNeverWraps ==
    [][ last'.call = "tick" =>
          /\ pc + 1 >= RAM_SIZE => fault' = "index out of bounds"
          /\ pc + 1 < RAM_SIZE => last'.op = FetchWord
          /\ AtMemoryOp =>
                /\ (fault' = "index out of bounds") <=> AddressesPastEnd
                /\ fault' \in { "none", "index out of bounds" }
                /\ \A a \in 0..(RAM_SIZE - 1) :
                      a < i_reg => RamAt(ram', a) = RamAt(ram, a)
                /\ IsFXnn(FetchWord, \h65) =>
                      \A idx \in 0..15 : i_reg + idx >= RAM_SIZE => v_reg'[idx] = v_reg[idx]
                /\ Digit1(FetchWord) = 13 =>
                      screen' = DrawSprite([screen |-> screen, flipped |-> FALSE, ok |-> TRUE],
                                           0, RowsInMemory, v_reg[Digit2(FetchWord)],
                                           v_reg[Digit3(FetchWord)], i_reg, ram).screen ]_vars

\* F133 with V1 = 123 and I = 0xFFE has stored 1 and 2 in the last two bytes
\* and faulted; address 0 still holds the first font byte, not the digit 3
C30_BcdStoreFaultedAtEnd ==
    /\ last.call = "tick" /\ last.op = \hF133
    /\ i_reg = \hFFE /\ v_reg[1] = 123
    /\ fault = "index out of bounds"
    /\ RamAt(ram, \hFFE) = 1 /\ RamAt(ram, \hFFF) = 2
    /\ RamAt(ram, 0) = \hF0

(***************************************************************************)
(* Programs that test a key                                                *)
(***************************************************************************)
\* key indices inside 0..15, and outside it with low nibbles 0, 7 and 15
KeyIndexVals == { 0, 7, 15, 16, 23, 255 }

\* 0x200  V1 = v; skip if key V1 is (not) pressed; halt; halt
KeySkipRoms ==
    { Asm(<< \h6100 + v, w, Halt(\h204), Halt(\h206) >>) :
        v \in KeyIndexVals, w \in { \hE19E, \hE1A1 } }

InitKeySkip == InitWith(KeySkipRoms)

SpecKeySkip == InitKeySkip /\ [][Next]_vars

\* the instruction at pc is EX9E (low = 0x9E) or EXA1 (low = 0xA1)
AtKeySkip(low) ==
    /\ ~FetchFaults
    /\ Digit1(FetchWord) = 14 /\ FetchWord % 256 = low

(***************************************************************************)
(* C31.  For reg[X] in 0..15, EX9E skips (pc = a + 4) exactly when         *)
(* keys[reg[X]] is pressed and EXA1 skips exactly when it is not pressed,  *)
(* so in any state exactly one of the two would skip; for reg[X] in        *)
(* 16..255 the key index is not masked to its low nibble and either        *)
(* instruction ends the tick in an out-of-bounds fault.                    *)
(***************************************************************************)
C31_KeySkipsAreComplementary ==
    [][ \A low \in { \h9E, \hA1 } :
          (last'.call = "tick" /\ AtKeySkip(low)) =>
            IF RegX \in 0..15
            THEN /\ fault' = "none"
                 /\ (pc' = pc + 4) <=> (keys[RegX] <=> (low = \h9E))
                 /\ (pc' = pc + 2) <=> (keys[RegX] <=> (low = \hA1))
                 /\ UNCHANGED << ram, screen, v_reg, i_reg, sp, stack, keys, dt, st >>
            ELSE fault' = "index out of bounds" ]_vars

\* E19E with V1 = 0x17 while key 7 is held: the tick faulted, it did not
\* skip on key 7
C31_UnmaskedIndexFaulted ==
    /\ last.call = "tick" /\ last.op = \hE19E
    /\ v_reg[1] = 23 /\ keys[7]
    /\ fault = "index out of bounds"

(***************************************************************************)
(* Programs that save registers, change them and load them back            *)
(***************************************************************************)
\* the values of V0, V1, V2 when they are stored
SavedVals == { << 0, 0, 0 >>, << 1, 2, 3 >>, << 255, 0, 128 >> }

\* the last register transferred
SavedUpTo == { 0, 1, 2, 15 }

\* where they are stored: mid-memory, and ending on the last byte of memory
SaveAreas == { \h300, \hFF0 }

\* 0x200  V0 = a; V1 = b; V2 = c; I = area; store V0..VX;
\* 0x20A  V0 = 0x11; V1 = 0x22; V2 = 0x33; load V0..VX; halt
SaveRestoreRoms ==
    { Asm(<< \h6000 + t[1], \h6100 + t[2], \h6200 + t[3], \hA000 + area,
             \hF055 + 256 * x, \h6011, \h6122, \h6233, \hF065 + 256 * x,
             Halt(\h212) >>) :
        t \in SavedVals, x \in SavedUpTo, area \in SaveAreas }

InitSaveRestore == InitWith(SaveRestoreRoms)

SpecSaveRestore == InitSaveRestore /\ [][Next]_vars

\* the instruction at pc is FX55 (low = 0x55) or FX65 (low = 0x65) and
\* I .. I + X is inside memory
AtTransfer(low) ==
    /\ ~FetchFaults
    /\ IsFXnn(FetchWord, low)
    /\ i_reg + Digit2(FetchWord) < RAM_SIZE

\* the value register k held when the store at 0x208 ran: the operand of the
\* 6kNN at 0x200 + 2k for V0..V2, zero for the registers never written
SavedReg(k) == IF k <= 2 THEN RamAt(ram, \h201 + 2 * k) ELSE 0

(***************************************************************************)
(* C32.  FX55 followed by FX65 with the same X and unchanged               *)
(* index_register restores reg[0..X] to the values they had at the FX55,   *)
(* even if those registers were modified in between; FX55 writes exactly   *)
(* memory[I .. I+X] with reg[0..X] and FX65 writes exactly reg[0..X] from  *)
(* memory[I .. I+X] (range inclusive of X); both leave index_register,     *)
(* registers above X and all other memory unchanged.                       *)
(* Stated for I + X inside memory.                                         *)
(***************************************************************************)
C32_StoreThenLoadRestores ==
    [][ /\ (last'.call = "tick" /\ AtTransfer(\h55)) =>
              /\ fault' = "none"
              /\ \A a \in 0..(RAM_SIZE - 1) :
                    RamAt(ram', a) = IF a \in i_reg..(i_reg + Digit2(FetchWord))
                                     THEN v_reg[a - i_reg]
                                     ELSE RamAt(ram, a)
              /\ v_reg' = v_reg /\ i_reg' = i_reg
        /\ (last'.call = "tick" /\ AtTransfer(\h65)) =>
              /\ fault' = "none"
              /\ \A k \in 0..15 :
                    v_reg'[k] = IF k <= Digit2(FetchWord)
                                THEN RamAt(ram, i_reg + k)
                                ELSE v_reg[k]
              /\ ram' = ram /\ i_reg' = i_reg
        /\ (last'.call = "tick" /\ AtTransfer(\h65) /\ pc = \h210) =>
              \A k \in 0..Digit2(FetchWord) : v_reg'[k] = SavedReg(k) ]_vars

\* V0 = 1, V1 = 2, V2 = 3 were stored with F155, overwritten with 0x11,
\* 0x22, 0x33 and loaded with F165: V0 and V1 are back, V2 is not
C32_TwoRegistersRestored ==
    /\ last.call = "tick" /\ last.op = \hF165 /\ fault = "none"
    /\ i_reg = \h300 /\ pc = \h212
    /\ v_reg[0] = 1 /\ v_reg[1] = 2 /\ v_reg[2] = \h33
    /\ RamAt(ram, \h300) = 1 /\ RamAt(ram, \h301) = 2 /\ RamAt(ram, \h302) = 0

(***************************************************************************)
(* Programs that draw a random number                                      *)
(***************************************************************************)
\* the masks: none, one bit, the low nibble, the high nibble, alternating bits
RandomMasks == { \h00, \h01, \h0F, \hF0, \hA5 }

\* 0x200  V3 = random & NN; halt
RandomRoms == { Asm(<< \hC300 + nn, Halt(\h202) >>) : nn \in RandomMasks }

\* the random programs, the program that runs every instruction, and a
\* return with nothing to return from (a tick that faults)
InitRandom == InitWith(RandomRoms \cup { AllOpsRom, Asm(<< \h00EE >>) })

SpecRandom == InitRandom /\ [][Next]_vars

\* the instruction at pc is CXNN
AtCXNN == ~FetchFaults /\ Digit1(FetchWord) = 12

(***************************************************************************)
(* C33.  CXNN is the only nondeterministic instruction: after CXNN reg[X]  *)
(* has no bit set outside NN (reg[X] AND NN = reg[X]; NN = 0 forces        *)
(* reg[X] = 0), every value r AND NN for r in 0..255 is a possible         *)
(* outcome, and nothing but reg[X] and pc changes; for every other         *)
(* instruction the post-tick state is a function of the pre-tick state and *)
(* the key flags.                                                          *)
(* A function of the pre-tick state: from the state before the tick no     *)
(* tick can end otherwise than this one did - none that differs in whether *)
(* it faults, and, when it does not fault, none that differs in any        *)
(* component of the machine.  For DXYN the function is written out: the    *)
(* sprite cells are toggled and reg[F] tells whether one was lit.          *)
(***************************************************************************)
C33_OnlyCXNNIsRandom ==
    /\ [] ( (loaded /\ fault = "none" /\ AtCXNN) =>
               \A outcome \in { BitAnd(r, FetchWord % 256) : r \in 0..255 } :
                  ENABLED (tick /\ v_reg'[Digit2(FetchWord)] = outcome) )
    /\ [][ /\ (last'.call = "tick" /\ AtCXNN) =>
              /\ fault' = "none"
              /\ v_reg'[Digit2(FetchWord)] \in 0..255
              /\ BitAnd(v_reg'[Digit2(FetchWord)], FetchWord % 256) = v_reg'[Digit2(FetchWord)]
              /\ FetchWord % 256 = 0 => v_reg'[Digit2(FetchWord)] = 0
              /\ \A k \in 0..15 : k # Digit2(FetchWord) => v_reg'[k] = v_reg[k]
              /\ pc' = pc + 2
              /\ UNCHANGED << ram, screen, i_reg, sp, stack, keys, dt, st >>
           /\ (last'.call = "tick" /\ ~FetchFaults /\ IsDXYN(FetchWord)) =>
               IF AtDXYN
               THEN /\ fault' = "none"
                    /\ screen' = (screen \ SpriteCells) \cup (SpriteCells \ screen)
                    /\ v_reg' = [v_reg EXCEPT
                                   ![15] = IF SpriteCells \cap screen # {} THEN 1 ELSE 0]
                    /\ pc' = pc + 2
                    /\ UNCHANGED << ram, i_reg, sp, stack, keys, dt, st >>
               ELSE fault' # "none"
           /\ (last'.call = "tick" /\ ~AtCXNN /\ (FetchFaults \/ ~IsDXYN(FetchWord))) =>
               \A after \in { << fault' = "none", emu' >> } :
                  /\ ~ ENABLED (tick /\ (fault' = "none") # after[1])
                  /\ after[1] => ~ ENABLED (tick /\ emu' # after[2]) ]_vars

\* C3A5 has drawn 0x24, the random byte 0x3C (among others) masked with 0xA5
C33_MaskedRandomDrawn ==
    /\ last.call = "tick" /\ last.op = \hC3A5
    /\ v_reg[3] = \h24 /\ pc = \h202 /\ fault = "none"

(***************************************************************************)
(* Programs that take pc to its extremes                                   *)
(***************************************************************************)
\* 0x200  V0..V3 = 0xF0, 0x0A, 0x10, 0x02; I = 0; store V0..V3; jump to 0
\* which puts the key wait F00A at address 0 and a halt at address 2, and
\* runs them there
WaitAtZeroRom ==
    Asm(<< \h60F0, \h610A, \h6210, \h6302, \hA000, \hF355, \h1000 >>)

\* the programs that run off the end of memory (a jump to 0x10FE through
\* BNNN, a taken skip at 0xFFE), and the key wait at address 0
InitPcRange == InitWith(RunOffRoms \cup { WaitAtZeroRom })

SpecPcRange == InitPcRange /\ [][Next]_vars

(***************************************************************************)
(* C34.  The 16-bit program counter never wraps: in every reachable        *)
(* non-faulted state pc <= 0x10FE (the maximum of BNNN's reg[0] + NNN =    *)
(* 255 + 4095), the pc + 2 of fetch and of a taken skip never exceeds      *)
(* 65535, and the pc - 2 of an FX0A re-arm never goes below 0.             *)
(* pc is an unbounded integer here, so a sum past 65535 or a difference    *)
(* below 0 would show as a value outside 0..65535.                         *)
(***************************************************************************)
C34_PcNeverWraps ==
    /\ [] ( /\ pc \in 0..65535
            /\ fault = "none" => pc <= \h10FE )
    /\ [][ (last'.call = "tick" /\ ~FetchFaults) =>
              /\ Fetched <= 65535
              /\ pc' \in { pc, Fetched, Fetched + 2 } => pc' \in 0..65535
              /\ (AtFX0A /\ NoKeyPressed) => (pc' = Fetched - 2 /\ pc' >= 0) ]_vars

\* BFFF with V0 = 0xFF has set pc to 0x10FE without a fault
C34_HighestPc ==
    /\ last.call = "tick" /\ last.op = \hBFFF
    /\ v_reg[0] = 255 /\ pc = \h10FE /\ fault = "none"

(***************************************************************************)
(* ROM files that do not fit                                               *)
(***************************************************************************)
\* a ROM of n bytes: a halt at 0x200, zeros, and 0xAA as its last byte
RomOfLength(n) == [i \in 1..n |-> IF i = 1 THEN \h12 ELSE IF i = n THEN \hAA ELSE 0]

\* one byte too long, and as long as the whole memory
OversizeRoms == { RomOfLength(RAM_SIZE - START_ADDR + 1), RomOfLength(RAM_SIZE) }

\* the ROMs that do not fit, the largest that does, and a short program
InitOversize == InitWith(OversizeRoms \cup { FullRom, LoopRom })

SpecOversize == InitOversize /\ [][Next]_vars

(***************************************************************************)
(* C35.  load() with a ROM longer than 3584 bytes (4096 - 512) ends in a   *)
(* fatal fault before any byte is copied: memory and every other machine   *)
(* component are exactly as before the call (no truncated or partial       *)
(* load); neither the core nor the desktop host checks the ROM length      *)
(* beforehand.                                                             *)
(* No check beforehand: a ROM of exactly 3584 bytes or fewer is loaded     *)
(* without a fault, and the call with a longer one is made and faults.     *)
(***************************************************************************)
C35_OversizeLoadCopiesNothing ==
    [][ last'.call = "load" =>
          IF Len(rom) > 3584
          THEN /\ fault' = "index out of bounds"
               /\ UNCHANGED emu
               /\ \A a \in 0..(RAM_SIZE - 1) : RamAt(ram', a) = RamAt(ram, a)
          ELSE fault' = "none" ]_vars

\* the load of the 3585-byte ROM has faulted: address 0x200 does not hold
\* the ROM's first byte, and the key pressed before the call is still down
C35_NothingCopied ==
    /\ last.call = "load" /\ Len(rom) = 3585
    /\ fault = "index out of bounds"
    /\ RamAt(ram, \h200) = 0 /\ RamAt(ram, \hFFF) = 0
    /\ keys[7]

====
